---- MODULE Spec2Model ----
(***************************************************************************)
(* Model of the chess-trainer engine: the evaluator (evaluateBoard), the   *)
(* searcher (minimax, findBestMove) and the rules oracle they are handed   *)
(* (the chess.js Chess object: board, turn, moves, move, undo, fen and the *)
(* game-over predicates).                                                  *)
(*                                                                         *)
(* Board coordinates are those of Chess.board(): row 0 is rank 8, row 7 is *)
(* rank 1, column 0 is file a.  A square holds a record {type, color}      *)
(* whose type is the LOWERCASE piece letter, as chess.js supplies it.      *)
(***************************************************************************)
EXTENDS Integers, Sequences, FiniteSets, TLC

VARIABLES game, pre, op, args, result, stack, ui

vars == <<game, pre, op, args, result, stack, ui>>

----------------------------------------------------------------------------
(* Constants of the engine                                                 *)

\* -Infinity / +Infinity of the search window: outside every finite score
NegInf == -1000000
PosInf == 1000000

MateScore == 100000
MobilityWeight == 5

Max(a, b) == IF a >= b THEN a ELSE b
Min(a, b) == IF a <= b THEN a ELSE b

PIECE_VALUES ==
  [p |-> -100, n |-> -320, b |-> -330, r |-> -500, q |-> -900, k |-> -20000,
   P |-> 100, N |-> 320, B |-> 330, R |-> 500, Q |-> 900, K |-> 20000]

POSITION_BONUSES ==
  [P |-> << <<0, 0, 0, 0, 0, 0, 0, 0>>,
            <<50, 50, 50, 50, 50, 50, 50, 50>>,
            <<10, 10, 20, 30, 30, 20, 10, 10>>,
            <<5, 5, 10, 25, 25, 10, 5, 5>>,
            <<0, 0, 0, 20, 20, 0, 0, 0>>,
            <<5, -5, -10, 0, 0, -10, -5, 5>>,
            <<5, 10, 10, -20, -20, 10, 10, 5>>,
            <<0, 0, 0, 0, 0, 0, 0, 0>> >>,
   N |-> << <<-50, -40, -30, -30, -30, -30, -40, -50>>,
            <<-40, -20, 0, 0, 0, 0, -20, -40>>,
            <<-30, 0, 10, 15, 15, 10, 0, -30>>,
            <<-30, 5, 15, 20, 20, 15, 5, -30>>,
            <<-30, 0, 15, 20, 20, 15, 0, -30>>,
            <<-30, 5, 10, 15, 15, 10, 5, -30>>,
            <<-40, -20, 0, 5, 5, 0, -20, -40>>,
            <<-50, -40, -30, -30, -30, -30, -40, -50>> >>,
   B |-> << <<-20, -10, -10, -10, -10, -10, -10, -20>>,
            <<-10, 0, 0, 0, 0, 0, 0, -10>>,
            <<-10, 0, 10, 10, 10, 10, 0, -10>>,
            <<-10, 5, 5, 10, 10, 5, 5, -10>>,
            <<-10, 0, 5, 10, 10, 5, 0, -10>>,
            <<-10, 10, 10, 10, 10, 10, 10, -10>>,
            <<-10, 5, 0, 0, 0, 0, 5, -10>>,
            <<-20, -10, -10, -10, -10, -10, -10, -20>> >>,
   R |-> << <<0, 0, 0, 0, 0, 0, 0, 0>>,
            <<5, 10, 10, 10, 10, 10, 10, 5>>,
            <<-5, 0, 0, 0, 0, 0, 0, -5>>,
            <<-5, 0, 0, 0, 0, 0, 0, -5>>,
            <<-5, 0, 0, 0, 0, 0, 0, -5>>,
            <<-5, 0, 0, 0, 0, 0, 0, -5>>,
            <<-5, 0, 0, 0, 0, 0, 0, -5>>,
            <<0, 0, 0, 5, 5, 0, 0, 0>> >>,
   Q |-> << <<-20, -10, -10, -5, -5, -10, -10, -20>>,
            <<-10, 0, 0, 0, 0, 0, 0, -10>>,
            <<-10, 0, 5, 5, 5, 5, 0, -10>>,
            <<-5, 0, 5, 5, 5, 5, 0, -5>>,
            <<0, 0, 5, 5, 5, 5, 0, -5>>,
            <<-10, 5, 5, 5, 5, 5, 0, -10>>,
            <<-10, 0, 5, 0, 0, 0, 0, -10>>,
            <<-20, -10, -10, -5, -5, -10, -10, -20>> >>,
   K |-> << <<-30, -40, -40, -50, -50, -40, -40, -30>>,
            <<-30, -40, -40, -50, -50, -40, -40, -30>>,
            <<-30, -40, -40, -50, -50, -40, -40, -30>>,
            <<-30, -40, -40, -50, -50, -40, -40, -30>>,
            <<-20, -30, -30, -40, -40, -30, -30, -20>>,
            <<-10, -20, -20, -20, -20, -20, -20, -10>>,
            <<20, 20, 0, 0, 0, 0, 20, 20>>,
            <<20, 30, 10, 0, 0, 10, 30, 20>> >> ]

\* String.prototype.toUpperCase on the piece letters
toUpperCase ==
  [p |-> "P", n |-> "N", b |-> "B", r |-> "R", q |-> "Q", k |-> "K",
   P |-> "P", N |-> "N", B |-> "B", R |-> "R", Q |-> "Q", K |-> "K"]

----------------------------------------------------------------------------
(* The rules oracle: the chess.js Chess object                             *)

Rows == 0..7
Cols == 0..7
Colors == {"w", "b"}
PieceTypes == {"p", "n", "b", "r", "q", "k"}

\* board()[row][col] === null
NoPiece == [type |-> "-", color |-> "-"]

Pc(t, c) == [type |-> t, color |-> c]

\* no en-passant target
NoSquare == <<8, 8>>

swapColor(c) == IF c = "w" THEN "b" ELSE "w"

OnBoard(r, c) == r \in Rows /\ c \in Cols

EmptyBoard == [r \in Rows |-> [c \in Cols |-> NoPiece]]

\* the board with the piece pc put on (r, c)
Put(bd, r, c, pc) == [bd EXCEPT ![r][c] = pc]

KnightOffsets ==
  {<<-2, -1>>, <<-2, 1>>, <<-1, -2>>, <<-1, 2>>,
   <<1, -2>>, <<1, 2>>, <<2, -1>>, <<2, 1>>}
KingOffsets ==
  {<<-1, -1>>, <<-1, 0>>, <<-1, 1>>, <<0, -1>>,
   <<0, 1>>, <<1, -1>>, <<1, 0>>, <<1, 1>>}
RookDirs == {<<-1, 0>>, <<1, 0>>, <<0, -1>>, <<0, 1>>}
BishopDirs == {<<-1, -1>>, <<-1, 1>>, <<1, -1>>, <<1, 1>>}

\* the direction a pawn of color c advances in (row delta)
PawnDir(c) == IF c = "w" THEN -1 ELSE 1
PawnStartRow(c) == IF c = "w" THEN 6 ELSE 1
PawnLastRow(c) == IF c = "w" THEN 0 ELSE 7

\* the first piece met on the ray leaving (r, c) in direction (dr, dc)
RECURSIVE FirstOnRay(_, _, _, _, _)
FirstOnRay(bd, r, c, dr, dc) ==
  IF ~OnBoard(r + dr, c + dc) THEN NoPiece
  ELSE IF bd[r + dr][c + dc] # NoPiece THEN bd[r + dr][c + dc]
  ELSE FirstOnRay(bd, r + dr, c + dc, dr, dc)

\* some piece of color by attacks square (r, c)
Attacked(bd, r, c, by) ==
  \/ \E o \in KnightOffsets :
        /\ OnBoard(r + o[1], c + o[2])
        /\ bd[r + o[1]][c + o[2]] = Pc("n", by)
  \/ \E o \in KingOffsets :
        /\ OnBoard(r + o[1], c + o[2])
        /\ bd[r + o[1]][c + o[2]] = Pc("k", by)
  \/ \E dc \in {-1, 1} :
        /\ OnBoard(r - PawnDir(by), c + dc)
        /\ bd[r - PawnDir(by)][c + dc] = Pc("p", by)
  \/ \E d \in RookDirs :
        FirstOnRay(bd, r, c, d[1], d[2]) \in {Pc("r", by), Pc("q", by)}
  \/ \E d \in BishopDirs :
        FirstOnRay(bd, r, c, d[1], d[2]) \in {Pc("b", by), Pc("q", by)}

\* the king of color c is attacked
KingAttacked(bd, c) ==
  \E r \in Rows : \E cc \in Cols :
     bd[r][cc] = Pc("k", c) /\ Attacked(bd, r, cc, swapColor(c))

----------------------------------------------------------------------------
(* Moves: generation, application, undo                                    *)

\* a move as the oracle hands it out: from, to and the promotion piece
Mv(from, to, promo) == [from |-> from, to |-> to, promotion |-> promo]

PromotionPieces == <<"q", "r", "b", "n">>

\* the squares the pawn of color col on (r, c) may go to
PawnTargets(bd, ep, r, c, col) ==
  LET d == PawnDir(col)
      push == IF OnBoard(r + d, c) /\ bd[r + d][c] = NoPiece
              THEN {<<r + d, c>>} ELSE {}
      dbl == IF /\ r = PawnStartRow(col)
                /\ bd[r + d][c] = NoPiece
                /\ bd[r + 2 * d][c] = NoPiece
             THEN {<<r + 2 * d, c>>} ELSE {}
      caps == {t \in {<<r + d, c - 1>>, <<r + d, c + 1>>} :
                 /\ OnBoard(t[1], t[2])
                 /\ \/ bd[t[1]][t[2]].color = swapColor(col)
                    \/ t = ep}
  IN push \cup dbl \cup caps

\* the squares the knight or king of color col on (r, c) may step to
StepTargets(bd, r, c, col, offsets) ==
  {t \in {<<r + o[1], c + o[2]>> : o \in offsets} :
     OnBoard(t[1], t[2]) /\ bd[t[1]][t[2]].color # col}

\* the squares a piece of color col reaches along the ray leaving (r, c)
RECURSIVE RayTargets(_, _, _, _, _, _)
RayTargets(bd, r, c, dr, dc, col) ==
  IF ~OnBoard(r + dr, c + dc) THEN {}
  ELSE IF bd[r + dr][c + dc] = NoPiece
  THEN {<<r + dr, c + dc>>} \cup RayTargets(bd, r + dr, c + dc, dr, dc, col)
  ELSE IF bd[r + dr][c + dc].color # col THEN {<<r + dr, c + dc>>}
  ELSE {}

\* the squares the sliding piece of color col on (r, c) may go to
SlideTargets(bd, r, c, col, dirs) ==
  UNION {RayTargets(bd, r, c, d[1], d[2], col) : d \in dirs}

\* the castling targets of the king of color col
CastleTargets(bd, castling, col) ==
  LET r == IF col = "w" THEN 7 ELSE 0
      opp == swapColor(col)
      ks == IF col = "w" THEN "K" ELSE "k"
      qs == IF col = "w" THEN "Q" ELSE "q"
      short == IF /\ ks \in castling
                  /\ bd[r][4] = Pc("k", col) /\ bd[r][7] = Pc("r", col)
                  /\ bd[r][5] = NoPiece /\ bd[r][6] = NoPiece
                  /\ ~Attacked(bd, r, 4, opp)
                  /\ ~Attacked(bd, r, 5, opp)
                  /\ ~Attacked(bd, r, 6, opp)
               THEN {<<r, 6>>} ELSE {}
      long == IF /\ qs \in castling
                 /\ bd[r][4] = Pc("k", col) /\ bd[r][0] = Pc("r", col)
                 /\ bd[r][1] = NoPiece /\ bd[r][2] = NoPiece
                 /\ bd[r][3] = NoPiece
                 /\ ~Attacked(bd, r, 4, opp)
                 /\ ~Attacked(bd, r, 3, opp)
                 /\ ~Attacked(bd, r, 2, opp)
              THEN {<<r, 2>>} ELSE {}
  IN short \cup long

Targets(g, r, c) ==
  LET bd == g.board
      t == bd[r][c].type
      col == bd[r][c].color
  IN CASE t = "p" -> PawnTargets(bd, g.ep, r, c, col)
       [] t = "n" -> StepTargets(bd, r, c, col, KnightOffsets)
       [] t = "b" -> SlideTargets(bd, r, c, col, BishopDirs)
       [] t = "r" -> SlideTargets(bd, r, c, col, RookDirs)
       [] t = "q" -> SlideTargets(bd, r, c, col, RookDirs \cup BishopDirs)
       [] t = "k" -> StepTargets(bd, r, c, col, KingOffsets)
                       \cup CastleTargets(bd, g.castling, col)
       [] OTHER -> {}

\* the board after the move m of the side to move
BoardAfter(bd, ep, m) ==
  LET fr == m.from[1]
      fc == m.from[2]
      tr == m.to[1]
      tc == m.to[2]
      pc == bd[fr][fc]
      placed == IF m.promotion = "-" THEN pc ELSE Pc(m.promotion, pc.color)
      b1 == Put(Put(bd, fr, fc, NoPiece), tr, tc, placed)
      \* en passant: the captured pawn stands beside the capturing one
      b2 == IF pc.type = "p" /\ m.to = ep /\ fc # tc
            THEN Put(b1, fr, tc, NoPiece) ELSE b1
      \* castling: the rook jumps over the king
      b3 == IF pc.type = "k" /\ tc - fc = 2
            THEN Put(Put(b2, fr, 7, NoPiece), fr, 5, Pc("r", pc.color))
            ELSE IF pc.type = "k" /\ fc - tc = 2
            THEN Put(Put(b2, fr, 0, NoPiece), fr, 3, Pc("r", pc.color))
            ELSE b2
  IN b3

\* the pseudo-legal moves of the side to move, as a set
PseudoMoves(g) ==
  UNION {UNION {IF g.board[r][c].type = "p" /\ t[1] = PawnLastRow(g.turn)
                THEN {Mv(<<r, c>>, t, PromotionPieces[i]) : i \in 1..4}
                ELSE {Mv(<<r, c>>, t, "-")} : t \in Targets(g, r, c)} :
         <<r, c>> \in {s \in Rows \X Cols : g.board[s[1]][s[2]].color = g.turn}}

\* the legal moves of the side to move, as a set
LegalMoveSet(g) ==
  {m \in PseudoMoves(g) :
     \A bd \in {BoardAfter(g.board, g.ep, m)} : ~KingAttacked(bd, g.turn)}

PromoIndex(p) ==
  CASE p = "-" -> 0 [] p = "q" -> 1 [] p = "r" -> 2 [] p = "b" -> 3
    [] p = "n" -> 4

PromoOfIndex == <<"q", "r", "b", "n">>

\* the order in which the oracle tries the steps of a knight and the
\* directions of a bishop, a rook, a queen and a king
KnightOrder ==
  <<<<-1, -2>>, <<-2, -1>>, <<-2, 1>>, <<-1, 2>>,
    <<1, 2>>, <<2, 1>>, <<2, -1>>, <<1, -2>>>>
DirOrder ==
  [b |-> <<<<-1, -1>>, <<-1, 1>>, <<1, 1>>, <<1, -1>>>>,
   r |-> <<<<-1, 0>>, <<0, 1>>, <<1, 0>>, <<0, -1>>>>,
   q |-> <<<<-1, -1>>, <<-1, 0>>, <<-1, 1>>, <<0, 1>>,
           <<1, 1>>, <<1, 0>>, <<1, -1>>, <<0, -1>>>>,
   k |-> <<<<-1, -1>>, <<-1, 0>>, <<-1, 1>>, <<0, 1>>,
           <<1, 1>>, <<1, 0>>, <<1, -1>>, <<0, -1>>>>]

IndexOf(seq, x) == CHOOSE i \in 1..Len(seq) : seq[i] = x
Sign(n) == IF n > 0 THEN 1 ELSE IF n < 0 THEN -1 ELSE 0
Abs(n) == IF n < 0 THEN -n ELSE n

\* the place of a move among the moves generated for its piece: a pawn's
\* single step, double step, then its two captures; a knight's steps in
\* their order; the other pieces direction by direction, nearest first
PieceRank(t, col, dr, dc) ==
  IF t = "p"
  THEN (IF dc = 0 THEN Abs(dr) - 1
        ELSE IF dc = PawnDir(col) THEN 2 ELSE 3)
  ELSE IF t = "n" THEN IndexOf(KnightOrder, <<dr, dc>>)
  ELSE IndexOf(DirOrder[t], <<Sign(dr), Sign(dc)>>) * 8
         + Max(Abs(dr), Abs(dc))

\* the place of a move in the move list: the squares are scanned from a8
\* to h1, and the castling moves come last, the king-side one first
OrderKey(bd, m) ==
  IF /\ bd[m.from[1]][m.from[2]].type = "k"
     /\ Abs(m.to[2] - m.from[2]) = 2
  THEN 64 * 128 + (IF m.to[2] > m.from[2] THEN 0 ELSE 1)
  ELSE (m.from[1] * 8 + m.from[2]) * 128
         + PieceRank(bd[m.from[1]][m.from[2]].type,
                     bd[m.from[1]][m.from[2]].color,
                     m.to[1] - m.from[1], m.to[2] - m.from[2])

\* a number that names the move and grows with its place in the list
MoveKey(bd, m) ==
  (OrderKey(bd, m) * 4096
     + (m.from[1] * 8 + m.from[2]) * 64 + (m.to[1] * 8 + m.to[2])) * 5
    + PromoIndex(m.promotion)

\* the move with the given key
MoveOfKey(k) ==
  LET p == k % 5
      t == (k \div 5) % 64
      f == ((k \div 5) \div 64) % 64
  IN Mv(<<f \div 8, f % 8>>, <<t \div 8, t % 8>>,
        IF p = 0 THEN "-" ELSE PromoOfIndex[p])

\* the moves with the given keys, in increasing key order
SortKeys(keys) ==
  [i \in 1..Cardinality(keys) |->
     MoveOfKey(CHOOSE k \in keys :
                 Cardinality({j \in keys : j < k}) = i - 1)] \o <<>>

\* game.moves({ verbose: true })
moves(g) ==
  CHOOSE ms \in {SortKeys(keys) :
                   keys \in {{MoveKey(g.board, m) : m \in LegalMoveSet(g)}}} :
    TRUE

\* what undo() needs to restore the position
Snapshot(g) ==
  [board |-> g.board, turn |-> g.turn, castling |-> g.castling, ep |-> g.ep,
   halfMoves |-> g.halfMoves, moveNumber |-> g.moveNumber]

\* the castling rights left after a move from fr to to
RightsAfter(castling, bd, m) ==
  LET pc == bd[m.from[1]][m.from[2]]
      lostByKing == IF pc.type = "k"
                    THEN (IF pc.color = "w" THEN {"K", "Q"} ELSE {"k", "q"})
                    ELSE {}
      corner(s) == CASE s = <<7, 7>> -> {"K"} [] s = <<7, 0>> -> {"Q"}
                     [] s = <<0, 7>> -> {"k"} [] s = <<0, 0>> -> {"q"}
                     [] OTHER -> {}
  IN castling \ (lostByKing \cup corner(m.from) \cup corner(m.to))

\* game.move(m): apply a legal move in place, pushing it on the history
move(g, m) ==
  LET bd == g.board
      pc == bd[m.from[1]][m.from[2]]
      capture == bd[m.to[1]][m.to[2]] # NoPiece
      dbl == pc.type = "p" /\ (m.to[1] - m.from[1]) \in {-2, 2}
  IN [board |-> BoardAfter(bd, g.ep, m),
      turn |-> swapColor(g.turn),
      castling |-> RightsAfter(g.castling, bd, m),
      ep |-> IF dbl THEN <<m.from[1] + PawnDir(g.turn), m.from[2]>>
             ELSE NoSquare,
      halfMoves |-> IF pc.type = "p" \/ capture THEN 0 ELSE g.halfMoves + 1,
      moveNumber |-> IF g.turn = "b" THEN g.moveNumber + 1 ELSE g.moveNumber,
      history |-> Append(g.history, Snapshot(g))]

\* game.undo(): pop the last move off the history and restore what it saved
undo(g) ==
  IF g.history = <<>> THEN g
  ELSE LET old == g.history[Len(g.history)]
       IN [board |-> old.board, turn |-> old.turn, castling |-> old.castling,
           ep |-> old.ep, halfMoves |-> old.halfMoves,
           moveNumber |-> old.moveNumber,
           history |-> SubSeq(g.history, 1, Len(g.history) - 1)]

\* game.turn()
turn(g) == g.turn

\* game.board()
board(g) == g.board

\* game.fen(): the position without the move history
fen(g) == Snapshot(g)

\* new Chess(fen): a game at that position with an empty history
Chess(f) ==
  [board |-> f.board, turn |-> f.turn, castling |-> f.castling, ep |-> f.ep,
   halfMoves |-> f.halfMoves, moveNumber |-> f.moveNumber, history |-> <<>>]

----------------------------------------------------------------------------
(* Game-over predicates of the oracle.  ms is the legal-move list of g,    *)
(* computed once per node and shared by the predicates that need it.       *)

\* game.isCheck()
isCheck(g) == KingAttacked(g.board, g.turn)

\* game.isCheckmate()
isCheckmate(g, ms) == isCheck(g) /\ Len(ms) = 0

\* game.isStalemate()
isStalemate(g, ms) == ~isCheck(g) /\ Len(ms) = 0

\* the squares holding a piece of type t
SquaresOf(g, t) ==
  {s \in Rows \X Cols : g.board[s[1]][s[2]].type = t}

\* the rule on n pieces, given the squares of the bishops and the knights
Insufficient(n, bishops, knights) ==
  \/ n = 2
  \/ n = 3 /\ (Cardinality(bishops) = 1 \/ Cardinality(knights) = 1)
  \/ /\ n = Cardinality(bishops) + 2
     /\ \/ \A s \in bishops : (s[1] + s[2]) % 2 = 0
        \/ \A s \in bishops : (s[1] + s[2]) % 2 = 1

\* game.isInsufficientMaterial(): K v K, K+minor v K, or only bishops that
\* all stand on squares of one color
isInsufficientMaterial(g) ==
  Insufficient(Cardinality({s \in Rows \X Cols :
                              g.board[s[1]][s[2]] # NoPiece}),
               SquaresOf(g, "b"), SquaresOf(g, "n"))

\* what two positions must share to count as a repetition
PositionKey(s) ==
  [board |-> s.board, turn |-> s.turn, castling |-> s.castling, ep |-> s.ep]

\* game.isThreefoldRepetition(): the current position has occurred three
\* times among the positions of this game object's history
isThreefoldRepetition(g) ==
  Cardinality({i \in 1..Len(g.history) :
                 PositionKey(g.history[i]) = PositionKey(g)}) + 1 >= 3

\* the fifty-move rule counts half moves
FiftyMoveLimit == 100

\* game.isDraw()
isDraw(g, ms) ==
  \/ g.halfMoves >= FiftyMoveLimit
  \/ isStalemate(g, ms)
  \/ isInsufficientMaterial(g)
  \/ isThreefoldRepetition(g)

\* game.isGameOver()
isGameOver(g, ms) == isCheckmate(g, ms) \/ isStalemate(g, ms) \/ isDraw(g, ms)

----------------------------------------------------------------------------
(* The evaluator                                                           *)

\* s[lo] + ... + s[hi]
RECURSIVE SumRange(_, _, _)
SumRange(s, lo, hi) ==
  IF lo > hi THEN 0
  ELSE IF lo = hi THEN s[lo]
  ELSE LET mid == (lo + hi) \div 2
       IN SumRange(s, lo, mid) + SumRange(s, mid + 1, hi)

SumSeq(s) == SumRange(s, 1, Len(s))

\* getPositionBonus without the negation in its else branch
getPositionBonusUnsigned(piece, row, col) ==
  LET pieceType == toUpperCase[piece]
  IN IF pieceType \notin DOMAIN POSITION_BONUSES THEN 0
     ELSE LET bonus == POSITION_BONUSES[pieceType]
          IN IF piece = toUpperCase[piece]
             THEN bonus[(7 - row) + 1][col + 1]
             ELSE bonus[row + 1][col + 1]

\* getPositionBonus(piece, row, col)
getPositionBonus(piece, row, col) ==
  LET pieceType == toUpperCase[piece]
  IN IF pieceType \notin DOMAIN POSITION_BONUSES THEN 0
     ELSE LET bonus == POSITION_BONUSES[pieceType]
          IN IF piece = toUpperCase[piece]
             THEN bonus[(7 - row) + 1][col + 1]
             ELSE -bonus[row + 1][col + 1]

\* score += PIECE_VALUES[square.type] * (square.color === 'w' ? 1 : -1)
MaterialOf(square) ==
  PIECE_VALUES[square.type] * (IF square.color = "w" THEN 1 ELSE -1)

\* score += getPositionBonus(square.type, row, col)
BonusOf(square, row, col) == getPositionBonus(square.type, row, col)

\* the squares in the order of the two nested loops
SquareSeq == [i \in 1..64 |-> <<(i - 1) \div 8, (i - 1) % 8>>]

\* the material part of the score accumulated by the loops
MaterialScore(g) ==
  SumSeq([i \in 1..64 |->
    LET square == board(g)[SquareSeq[i][1]][SquareSeq[i][2]]
    IN IF square # NoPiece THEN MaterialOf(square) ELSE 0])

\* the positional part of the score accumulated by the loops
PositionScore(g) ==
  SumSeq([i \in 1..64 |->
    LET square == board(g)[SquareSeq[i][1]][SquareSeq[i][2]]
    IN IF square # NoPiece
       THEN BonusOf(square, SquareSeq[i][1], SquareSeq[i][2]) ELSE 0])

\* the mobility term without the sign of the side to move
MobilityUnsigned(g, ms) == Len(ms) * MobilityWeight

\* score += moves.length * (game.turn() === 'w' ? 1 : -1) * 5
MobilityScore(g, ms) ==
  Len(ms) * (IF turn(g) = "w" THEN 1 ELSE -1) * MobilityWeight

\* evaluateBoard with the draw test placed before the checkmate test
EvaluateDrawFirst(g, ms) ==
  IF \/ isDraw(g, ms) \/ isStalemate(g, ms)
     \/ isThreefoldRepetition(g) \/ isInsufficientMaterial(g)
  THEN 0
  ELSE IF isCheckmate(g, ms)
  THEN (IF turn(g) = "w" THEN -MateScore ELSE MateScore)
  ELSE MaterialScore(g) + PositionScore(g) + MobilityScore(g, ms)

\* the body of evaluateBoard, ms being the legal moves of g
Evaluate(g, ms) ==
  IF isCheckmate(g, ms)
  THEN (IF turn(g) = "w" THEN -MateScore ELSE MateScore)
  ELSE IF \/ isDraw(g, ms) \/ isStalemate(g, ms)
          \/ isThreefoldRepetition(g) \/ isInsufficientMaterial(g)
  THEN 0
  ELSE MaterialScore(g) + PositionScore(g) + MobilityScore(g, ms)

\* evaluateBoard(game)
evaluateBoard(g) == Evaluate(g, moves(g))

\* evaluateBoard that leaves the first legal move applied to the game
EvaluatedGamePlayed(g, ms) == IF Len(ms) = 0 THEN g ELSE move(g, ms[1])

\* the game object after evaluateBoard(game), ms being its legal moves:
\* isCheckmate, isDraw, isStalemate, isThreefoldRepetition,
\* isInsufficientMaterial, board, moves and turn are queries
EvaluatedGame(g, ms) == g

----------------------------------------------------------------------------
(* Standard algebraic notation of a move (move.san)                        *)

FileNames == <<"a", "b", "c", "d", "e", "f", "g", "h">>
RankNames == <<"8", "7", "6", "5", "4", "3", "2", "1">>

SquareName(s) == FileNames[s[2] + 1] \o RankNames[s[1] + 1]

\* what tells m apart from the other legal moves of a like piece to m.to
Disambiguator(g, ms, m) ==
  LET t == g.board[m.from[1]][m.from[2]].type
      others == {i \in 1..Len(ms) :
                   /\ ms[i].to = m.to
                   /\ ms[i].from # m.from
                   /\ g.board[ms[i].from[1]][ms[i].from[2]].type = t}
      sameFile == \E i \in others : ms[i].from[2] = m.from[2]
      sameRank == \E i \in others : ms[i].from[1] = m.from[1]
  IN IF others = {} THEN ""
     ELSE IF sameFile /\ sameRank THEN SquareName(m.from)
     ELSE IF sameFile THEN RankNames[m.from[1] + 1]
     ELSE FileNames[m.from[2] + 1]

\* "+" when the move gave check, "#" when it gave mate; g1 is the position
\* after the move
CheckSuffix(g1) ==
  IF isCheck(g1) THEN (IF Len(moves(g1)) = 0 THEN "#" ELSE "+") ELSE ""

\* the SAN string of the legal move m of position g, whose move list is ms
San(g, ms, m) ==
  LET pc == g.board[m.from[1]][m.from[2]]
      capture == \/ g.board[m.to[1]][m.to[2]] # NoPiece
                 \/ pc.type = "p" /\ m.from[2] # m.to[2]
      body ==
        IF pc.type = "k" /\ m.to[2] - m.from[2] = 2 THEN "O-O"
        ELSE IF pc.type = "k" /\ m.from[2] - m.to[2] = 2 THEN "O-O-O"
        ELSE IF pc.type = "p"
        THEN (IF capture THEN FileNames[m.from[2] + 1] \o "x" ELSE "")
               \o SquareName(m.to)
               \o (IF m.promotion = "-" THEN ""
                   ELSE "=" \o toUpperCase[m.promotion])
        ELSE toUpperCase[pc.type] \o Disambiguator(g, ms, m)
               \o (IF capture THEN "x" ELSE "") \o SquareName(m.to)
  IN body \o CheckSuffix(move(g, m))

----------------------------------------------------------------------------
(* The searcher                                                            *)

\* a move that is not there: undefined in minimax, null in findBestMove
Undefined == "undefined"
Null == "null"

\* The locals of a minimax frame while its loop runs: the game object, the
\* window, the running best score (maxScore or minScore), the index of
\* bestMove in the move list (0: undefined), whether the loop was left by
\* break, and two counters of the walk: nodes visited and loops left by a
\* break with moves still unexamined.
Frame(g, alpha, beta, score, bestMove, nodes, cuts, done) ==
  [game |-> g, alpha |-> alpha, beta |-> beta, score |-> score,
   bestMove |-> bestMove, nodes |-> nodes, cuts |-> cuts, done |-> done]

RECURSIVE minimax(_, _, _, _, _)

\* MaxBody with the break test written alpha <= beta
MaxBodySwappedTest(f, ms, i, evaluation, better) ==
  Frame(undo(evaluation.game),
        Max(f.alpha, IF better THEN evaluation.score ELSE f.score),
        f.beta,
        IF better THEN evaluation.score ELSE f.score,
        IF better THEN i ELSE f.bestMove,
        f.nodes + evaluation.nodes,
        f.cuts + evaluation.cuts
          + (IF /\ Max(f.alpha, IF better THEN evaluation.score
                                ELSE f.score) <= f.beta
                /\ i < Len(ms) THEN 1 ELSE 0),
        Max(f.alpha, IF better THEN evaluation.score ELSE f.score) <= f.beta)

\* MaxBody with game.undo() placed after the break test, so that a break
\* leaves the move on the board
MaxBodyUndoAfterBreak(f, ms, i, evaluation, better) ==
  Frame(IF f.beta <= Max(f.alpha, IF better THEN evaluation.score
                                  ELSE f.score)
        THEN evaluation.game ELSE undo(evaluation.game),
        Max(f.alpha, IF better THEN evaluation.score ELSE f.score),
        f.beta,
        IF better THEN evaluation.score ELSE f.score,
        IF better THEN i ELSE f.bestMove,
        f.nodes + evaluation.nodes,
        f.cuts + evaluation.cuts
          + (IF /\ f.beta <= Max(f.alpha, IF better THEN evaluation.score
                                          ELSE f.score)
                /\ i < Len(ms) THEN 1 ELSE 0),
        f.beta <= Max(f.alpha, IF better THEN evaluation.score ELSE f.score))

\* the maximizing loop body after the recursive call on ms[i] returned
\* evaluation: undo, update maxScore and bestMove, raise alpha, break
MaxBody(f, ms, i, evaluation, better) ==
  Frame(undo(evaluation.game),
        Max(f.alpha, IF better THEN evaluation.score ELSE f.score),
        f.beta,
        IF better THEN evaluation.score ELSE f.score,
        IF better THEN i ELSE f.bestMove,
        f.nodes + evaluation.nodes,
        f.cuts + evaluation.cuts
          + (IF /\ f.beta <= Max(f.alpha, IF better THEN evaluation.score
                                          ELSE f.score)
                /\ i < Len(ms) THEN 1 ELSE 0),
        f.beta <= Max(f.alpha, IF better THEN evaluation.score ELSE f.score))

\* the comparison of the maximizing loop written >=
MaxUpdateOrEqual(f, ms, i, evaluation) ==
  MaxBody(f, ms, i, evaluation, evaluation.score >= f.score)

\* if (evaluation.score > maxScore)
MaxUpdate(f, ms, i, evaluation) ==
  MaxBody(f, ms, i, evaluation, evaluation.score > f.score)

\* MaxStep with the recursive call keeping the maximizing flag
MaxStepSameSide(f, ms, i, depth) ==
  IF f.done THEN f
  ELSE MaxUpdate(f, ms, i,
                 minimax(move(f.game, ms[i]), depth - 1, f.alpha, f.beta,
                         TRUE))

\* one pass of the maximizing loop on ms[i], unless the loop was left
MaxStep(f, ms, i, depth) ==
  IF f.done THEN f
  ELSE MaxUpdate(f, ms, i,
                 minimax(move(f.game, ms[i]), depth - 1, f.alpha, f.beta,
                         FALSE))

\* MinBody without its game.undo()
MinBodyNoUndo(f, ms, i, evaluation, better) ==
  Frame(evaluation.game,
        f.alpha,
        Min(f.beta, IF better THEN evaluation.score ELSE f.score),
        IF better THEN evaluation.score ELSE f.score,
        IF better THEN i ELSE f.bestMove,
        f.nodes + evaluation.nodes,
        f.cuts + evaluation.cuts
          + (IF /\ Min(f.beta, IF better THEN evaluation.score
                               ELSE f.score) <= f.alpha
                /\ i < Len(ms) THEN 1 ELSE 0),
        Min(f.beta, IF better THEN evaluation.score ELSE f.score) <= f.alpha)

\* the minimizing loop body after the recursive call on ms[i] returned
MinBody(f, ms, i, evaluation, better) ==
  Frame(undo(evaluation.game),
        f.alpha,
        Min(f.beta, IF better THEN evaluation.score ELSE f.score),
        IF better THEN evaluation.score ELSE f.score,
        IF better THEN i ELSE f.bestMove,
        f.nodes + evaluation.nodes,
        f.cuts + evaluation.cuts
          + (IF /\ Min(f.beta, IF better THEN evaluation.score
                               ELSE f.score) <= f.alpha
                /\ i < Len(ms) THEN 1 ELSE 0),
        Min(f.beta, IF better THEN evaluation.score ELSE f.score) <= f.alpha)

MinUpdate(f, ms, i, evaluation) ==
  MinBody(f, ms, i, evaluation, evaluation.score < f.score)

\* one pass of the minimizing loop on ms[i], unless the loop was left
MinStep(f, ms, i, depth) ==
  IF f.done THEN f
  ELSE MinUpdate(f, ms, i,
                 minimax(move(f.game, ms[i]), depth - 1, f.alpha, f.beta,
                         TRUE))

RECURSIVE RunLoop(_, _, _, _, _, _)

\* the passes on ms[lo], ..., ms[hi] once those before them left frame f:
\* none after a break
Continue(isMaximizingPlayer, ms, depth, lo, hi, f) ==
  IF f.done THEN f ELSE RunLoop(isMaximizingPlayer, ms, depth, lo, hi, f)

\* for (const move of moves): the passes on ms[lo], ..., ms[hi] in this
\* order, starting from frame f (the range is halved to keep the
\* evaluation shallow; the passes and their order are the loop's)
RunLoop(isMaximizingPlayer, ms, depth, lo, hi, f) ==
  IF lo > hi THEN f
  ELSE IF lo = hi
  THEN (IF isMaximizingPlayer THEN MaxStep(f, ms, lo, depth)
        ELSE MinStep(f, ms, lo, depth))
  ELSE Continue(isMaximizingPlayer, ms, depth, ((lo + hi) \div 2) + 1, hi,
                RunLoop(isMaximizingPlayer, ms, depth, lo, (lo + hi) \div 2,
                        f))

\* return { score, move: bestMove?.san }, f being the frame the loop left
Return(g, ms, f) ==
  [score |-> f.score,
   move |-> IF f.bestMove = 0 THEN Undefined
            ELSE San(g, ms, ms[f.bestMove]),
   game |-> f.game, nodes |-> f.nodes, cuts |-> f.cuts]

\* the body of minimax with both running bests starting at 0
SearchZeroStart(g, ms, depth, alpha, beta, isMaximizingPlayer) ==
  IF depth = 0 \/ isGameOver(g, ms)
  THEN [score |-> Evaluate(g, ms), move |-> Undefined, game |-> g,
        nodes |-> 1, cuts |-> 0]
  ELSE Return(g, ms,
         RunLoop(isMaximizingPlayer, ms, depth, 1, Len(ms),
                 Frame(g, alpha, beta, 0, 0, 1, 0, FALSE)))

\* the body of minimax, ms being the legal moves of g
Search(g, ms, depth, alpha, beta, isMaximizingPlayer) ==
  IF depth = 0 \/ isGameOver(g, ms)
  THEN [score |-> Evaluate(g, ms), move |-> Undefined, game |-> g,
        nodes |-> 1, cuts |-> 0]
  ELSE Return(g, ms,
         RunLoop(isMaximizingPlayer, ms, depth, 1, Len(ms),
                 Frame(g, alpha, beta,
                       IF isMaximizingPlayer THEN NegInf ELSE PosInf,
                       0, 1, 0, FALSE)))

\* minimax(game, depth, alpha, beta, isMaximizingPlayer): the returned
\* { score, move } together with the game object after the call
minimax(g, depth, alpha, beta, isMaximizingPlayer) ==
  Search(g, moves(g), depth, alpha, beta, isMaximizingPlayer)

\* first line of findBestMove: which branch the root takes
RootIsMaximizing(gameCopy, computerColor) == turn(gameCopy) = computerColor

\* return move, without the || null
BestMoveResultUndefined(r, isMaximizingPlayer) ==
  [move |-> r.move, isMaximizingPlayer |-> isMaximizingPlayer,
   score |-> r.score, nodes |-> r.nodes, cuts |-> r.cuts]

\* return move || null, with the root's flag and the walk's counters
BestMoveResult(r, isMaximizingPlayer) ==
  [move |-> IF r.move = Undefined THEN Null ELSE r.move,
   isMaximizingPlayer |-> isMaximizingPlayer,
   score |-> r.score, nodes |-> r.nodes, cuts |-> r.cuts]

\* the search on the private copy
SearchCopy(gameCopy, depth, isMaximizingPlayer) ==
  BestMoveResult(minimax(gameCopy, depth, NegInf, PosInf, isMaximizingPlayer),
                 isMaximizingPlayer)

\* what a findBestMove call leaves: the caller's game object g, which the
\* search on the copy never touched, and the returned value r
Outcome(g, r) ==
  [game |-> g, move |-> r.move, isMaximizingPlayer |-> r.isMaximizingPlayer,
   score |-> r.score, nodes |-> r.nodes, cuts |-> r.cuts]

\* findBestMove that searches the game object it is given and then plays
\* a move on it
findBestMoveInPlace(g, depth, computerColor) ==
  [game |-> IF depth = 0 \/ isGameOver(g, moves(g)) THEN g
            ELSE move(g, moves(g)[1]),
   move |-> SearchCopy(g, depth, RootIsMaximizing(g, computerColor)).move,
   isMaximizingPlayer |-> RootIsMaximizing(g, computerColor),
   score |-> SearchCopy(g, depth, RootIsMaximizing(g, computerColor)).score,
   nodes |-> SearchCopy(g, depth, RootIsMaximizing(g, computerColor)).nodes,
   cuts |-> SearchCopy(g, depth, RootIsMaximizing(g, computerColor)).cuts]

\* findBestMove(game, depth, computerColor)
findBestMove(g, depth, computerColor) ==
  Outcome(g, SearchCopy(Chess(fen(g)), depth,
                        RootIsMaximizing(Chess(fen(g)), computerColor)))

----------------------------------------------------------------------------
(* Positions                                                               *)

\* a position: pieces is a set of <<row, col, type, color>>
Position(pieces, tn, castling, ep, half) ==
  [board |-> [r \in Rows |-> [c \in Cols |->
                IF \E p \in pieces : p[1] = r /\ p[2] = c
                THEN LET p == CHOOSE p \in pieces : p[1] = r /\ p[2] = c
                     IN Pc(p[3], p[4])
                ELSE NoPiece]],
   turn |-> tn, castling |-> castling, ep |-> ep,
   halfMoves |-> half, moveNumber |-> 1, history |-> <<>>]

BackRank == <<"r", "n", "b", "q", "k", "b", "n", "r">>

\* new Chess(): the standard starting position
StartPosition ==
  Position({<<0, c, BackRank[c + 1], "b">> : c \in Cols}
             \cup {<<1, c, "p", "b">> : c \in Cols}
             \cup {<<6, c, "p", "w">> : c \in Cols}
             \cup {<<7, c, BackRank[c + 1], "w">> : c \in Cols},
           "w", {"K", "Q", "k", "q"}, NoSquare, 0)

\* the position reached from g by the moves of the sequence mvs
RECURSIVE Replay(_, _)
Replay(g, mvs) ==
  IF mvs = <<>> THEN g ELSE Replay(move(g, Head(mvs)), Tail(mvs))

\* White mates in one by c8=Q or c8=R: Ka8 / Kb6, Pc7
MateInOneWhite ==
  Position({<<0, 0, "k", "b">>, <<2, 1, "k", "w">>, <<1, 2, "p", "w">>},
           "w", {}, NoSquare, 0)

\* Black mates in one by c1=Q or c1=R: Ka1 / Kb3, Pc2
MateInOneBlack ==
  Position({<<7, 0, "k", "w">>, <<5, 1, "k", "b">>, <<6, 2, "p", "b">>},
           "b", {}, NoSquare, 0)

\* White is checkmated: Ka1 / Kb3, Qb2
WhiteMated ==
  Position({<<7, 0, "k", "w">>, <<5, 1, "k", "b">>, <<6, 1, "q", "b">>},
           "w", {}, NoSquare, 3)

\* Black is checkmated, with a pawn race still on the board
BlackMated ==
  Position({<<0, 0, "k", "b">>, <<2, 1, "k", "w">>, <<0, 2, "r", "w">>,
            <<6, 7, "p", "w">>, <<1, 7, "p", "b">>},
           "b", {}, NoSquare, 1)

\* Black to move is stalemated: Ka8 / Kb6, Pc7
BlackStalemated ==
  Position({<<0, 0, "k", "b">>, <<2, 1, "k", "w">>, <<1, 2, "p", "w">>},
           "b", {}, NoSquare, 0)

\* king and pawn endings with the kings in the corners: few moves a side
PawnEndings ==
  {Position({<<7, 7, "k", "w">>, <<0, 0, "k", "b">>,
             <<wp[1], wp[2], "p", "w">>, <<bp[1], bp[2], "p", "b">>},
            t, {}, NoSquare, 0) :
     wp \in {<<4, 3>>, <<4, 4>>}, bp \in {<<3, 4>>, <<3, 3>>}, t \in Colors}

\* a knight against a pawn that is about to promote
KnightEnding ==
  Position({<<7, 7, "k", "w">>, <<0, 0, "k", "b">>, <<5, 5, "n", "w">>,
            <<6, 1, "p", "b">>, <<2, 6, "p", "w">>},
           "b", {}, NoSquare, 4)

\* both sides may still castle, and a double pawn step allows a capture en
\* passant
CastlingGame ==
  Position({<<7, 4, "k", "w">>, <<7, 7, "r", "w">>, <<6, 7, "p", "w">>,
            <<3, 4, "p", "w">>, <<0, 4, "k", "b">>, <<0, 0, "r", "b">>,
            <<1, 0, "p", "b">>, <<1, 3, "p", "b">>},
           "b", {"K", "q"}, NoSquare, 0)

\* kings in the corners and a pair of pawns that block each other
BlockedPawns ==
  Position({<<7, 7, "k", "w">>, <<0, 0, "k", "b">>,
            <<4, 3, "p", "w">>, <<3, 3, "p", "b">>},
           "w", {}, NoSquare, 0)

\* the kings have shuffled there and back: Black's Kb8-a8 repeats the
\* position for the third time
RepeatedGame ==
  Replay(BlockedPawns,
         <<Mv(<<7, 7>>, <<7, 6>>, "-"), Mv(<<0, 0>>, <<0, 1>>, "-"),
           Mv(<<7, 6>>, <<7, 7>>, "-"), Mv(<<0, 1>>, <<0, 0>>, "-"),
           Mv(<<7, 7>>, <<7, 6>>, "-"), Mv(<<0, 0>>, <<0, 1>>, "-"),
           Mv(<<7, 6>>, <<7, 7>>, "-")>>)

\* the game after that move: the oracle reports a threefold repetition
ThriceRepeated == move(RepeatedGame, Mv(<<0, 1>>, <<0, 0>>, "-"))

\* the games the searcher is run on; the last four carry a move history
SearchGames ==
  PawnEndings
    \cup {MateInOneWhite, MateInOneBlack, WhiteMated, BlackMated,
          BlackStalemated, KnightEnding, CastlingGame,
          RepeatedGame, ThriceRepeated,
          move(KnightEnding, Mv(<<6, 1>>, <<7, 1>>, "q")),
          Replay(MateInOneWhite, <<Mv(<<2, 1>>, <<3, 1>>, "-"),
                                   Mv(<<0, 0>>, <<1, 0>>, "-")>>)}

----------------------------------------------------------------------------
(* The ChessGame component as constructed                                  *)

\* useState(3): the default search depth
DefaultDepth == 3

\* useRef<number | null>(null): no timer tracked
NoTimer == 0

\* the custom FEN text box: empty, not a FEN, or the FEN of a position
EmptyFen == [kind |-> "empty", fen |-> fen(StartPosition)]
InvalidFen == [kind |-> "invalid", fen |-> fen(StartPosition)]

\* the useState and useRef values of the first render, the timers pending
\* (none), whether an effect run is due (the one after mounting) and how
\* often the user has acted; started and resets are not values of the
\* component: the FEN of the game object the constructor or the last
\* resetGame set, and how often resetGame has run
InitialUI ==
  [customFen |-> EmptyFen, fenError |-> Null,
   initialFen |-> fen(StartPosition), moveHistory |-> <<>>,
   gameOver |-> Null, playerColor |-> "w", computerThinking |-> FALSE,
   searchDepth |-> DefaultDepth, computerTimeoutRef |-> NoTimer,
   timers |-> {}, effect |-> TRUE, inputs |-> 0,
   started |-> fen(StartPosition), resets |-> 0]

----------------------------------------------------------------------------
(* The engine as a state machine: a caller holds a game object and calls   *)
(* the exported functions on it.                                           *)
(*   game    the caller's Chess object                                     *)
(*   pre     the game object as it was when the last call was made         *)
(*   op      the function called last                                      *)
(*   args    the arguments of the minimax call made last, by the caller or *)
(*           by findBestMove                                               *)
(*   result  what the call returned, with the counters of the walk         *)
(*   stack   the frames of the minimax call that is running, the root's    *)
(*           first; empty when no call is running                          *)
(*   ui      the state of the ChessGame component other than its game      *)

\* the largest search depth a caller asks for
MaxDepth == 2

Depths == 0..MaxDepth

NoArgs ==
  [depth |-> 0, alpha |-> NegInf, beta |-> PosInf,
   isMaximizingPlayer |-> TRUE, computerColor |-> "-"]

NoResult == [score |-> 0, move |-> Undefined, nodes |-> 0, cuts |-> 0]

Init ==
  /\ game \in SearchGames
  /\ pre = game
  /\ op = "init"
  /\ args = NoArgs
  /\ result = NoResult
  /\ stack = <<>>
  /\ ui = InitialUI

\* what the caller sees of a minimax call: the game object afterwards and
\* the returned { score, move }
Returned(r) ==
  [score |-> r.score, move |-> r.move, nodes |-> r.nodes, cuts |-> r.cuts]

AfterMinimax(r, depth, isMaximizingPlayer) ==
  /\ game' = r.game
  /\ pre' = game
  /\ op' = "minimax"
  /\ args' = [depth |-> depth, alpha |-> NegInf, beta |-> PosInf,
              isMaximizingPlayer |-> isMaximizingPlayer,
              computerColor |-> "-"]
  /\ result' = Returned(r)
  /\ UNCHANGED <<stack, ui>>

\* minimax(game, depth) or minimax(game, depth, -Infinity, Infinity, flag)
MinimaxCall ==
  /\ op = "init"
  /\ \E depth \in Depths : \E isMaximizingPlayer \in BOOLEAN :
        AfterMinimax(minimax(game, depth, NegInf, PosInf, isMaximizingPlayer),
                     depth, isMaximizingPlayer)

AfterFindBestMove(r, depth, computerColor) ==
  /\ game' = r.game
  /\ pre' = game
  /\ op' = "findBestMove"
  /\ args' = [depth |-> depth, alpha |-> NegInf, beta |-> PosInf,
              isMaximizingPlayer |-> r.isMaximizingPlayer,
              computerColor |-> computerColor]
  /\ result' = Returned(r)
  /\ UNCHANGED <<stack, ui>>

\* findBestMove(game, depth, computerColor)
FindBestMoveCall ==
  /\ op = "init"
  /\ \E depth \in Depths : \E computerColor \in Colors :
        AfterFindBestMove(findBestMove(game, depth, computerColor),
                          depth, computerColor)

Next == MinimaxCall \/ FindBestMoveCall

Spec == Init /\ [][Next]_vars

----------------------------------------------------------------------------
(* The evaluator on its own: evaluateBoard is called on a game object as   *)
(* it stands or after one game.move, as the search does before it          *)
(* evaluates a child.                                                      *)

\* 1. e4 e5 2. Nf3
OpenGame ==
  Replay(StartPosition, <<Mv(<<6, 4>>, <<4, 4>>, "-"),
                          Mv(<<1, 4>>, <<3, 4>>, "-"),
                          Mv(<<7, 6>>, <<5, 5>>, "-")>>)

\* 99 half moves without a capture or a pawn move; Black's Qb2 is mate
FiftyMoveGame ==
  Position({<<7, 0, "k", "w">>, <<5, 1, "k", "b">>, <<6, 7, "q", "b">>},
           "b", {}, NoSquare, 99)

\* the same with White to mate by Qb7
FiftyMoveGameWhite ==
  Position({<<0, 0, "k", "b">>, <<2, 1, "k", "w">>, <<1, 7, "q", "w">>},
           "w", {}, NoSquare, 99)

\* too little material to mate, or a capture away from it
BareKings ==
  {Position({<<7, 4, "k", "w">>, <<0, 4, "k", "b">>}, "w", {}, NoSquare, 0),
   Position({<<7, 4, "k", "w">>, <<0, 4, "k", "b">>, <<4, 2, "n", "w">>},
            "b", {}, NoSquare, 0),
   Position({<<7, 4, "k", "w">>, <<0, 4, "k", "b">>, <<4, 2, "b", "w">>,
             <<3, 5, "b", "b">>}, "w", {}, NoSquare, 0),
   Position({<<7, 4, "k", "w">>, <<1, 4, "k", "b">>, <<2, 2, "b", "w">>,
             <<1, 3, "p", "b">>}, "w", {}, NoSquare, 0)}

\* every piece type of both colors, off its home square
MiddleGame ==
  Position({<<7, 6, "k", "w">>, <<7, 5, "r", "w">>, <<6, 5, "p", "w">>,
            <<6, 6, "p", "w">>, <<5, 7, "p", "w">>, <<4, 3, "p", "w">>,
            <<5, 2, "n", "w">>, <<4, 5, "b", "w">>, <<6, 3, "q", "w">>,
            <<0, 2, "k", "b">>, <<0, 3, "r", "b">>, <<1, 0, "p", "b">>,
            <<1, 1, "p", "b">>, <<2, 2, "p", "b">>, <<3, 4, "p", "b">>,
            <<2, 5, "n", "b">>, <<1, 4, "b", "b">>, <<3, 0, "q", "b">>},
           "w", {}, NoSquare, 2)

EvalGames ==
  SearchGames \cup BareKings
    \cup {StartPosition, OpenGame, FiftyMoveGame,
          FiftyMoveGameWhite, MiddleGame,
          [MiddleGame EXCEPT !.turn = "b"]}

InitEval ==
  /\ game \in EvalGames
  /\ pre = game
  /\ op = "init"
  /\ args = NoArgs
  /\ result = NoResult
  /\ stack = <<>>
  /\ ui = InitialUI

\* game.move(ms[i]) for one of the legal moves ms
PlayOne(ms) ==
  \E i \in 1..Len(ms) :
    /\ game' = move(game, ms[i])
    /\ pre' = game
    /\ op' = "move"
    /\ UNCHANGED <<args, result, stack, ui>>

MoveCall ==
  /\ op = "init"
  /\ PlayOne(moves(game))

\* evaluateBoard(game): it reads the game object and returns a number
EvaluateBoardCall ==
  /\ op \in {"init", "move", "evaluateBoard"}
  /\ game' = EvaluatedGame(game, moves(game))
  /\ pre' = game
  /\ op' = "evaluateBoard"
  /\ args' = NoArgs
  /\ result' = [score |-> evaluateBoard(game), move |-> Undefined,
                nodes |-> 0, cuts |-> 0]
  /\ UNCHANGED <<stack, ui>>

NextEval == MoveCall \/ EvaluateBoardCall

SpecEval == InitEval /\ [][NextEval]_vars

----------------------------------------------------------------------------
(* The search frame by frame: one minimax call of a caller, run on the one *)
(* game object all its frames share.  A frame is at                        *)
(*   "enter"   before the base-case test,                                  *)
(*   "loop"    at the head of its for loop, about to take ms[i] or leave,  *)
(*   "called"  inside the recursive call it made after game.move(ms[i]).   *)
(* Besides the locals of the code a frame keeps the game object as it was  *)
(* on entry and the scores its children returned, in the order examined.   *)

\* depth passed to the recursive call, left as it is
ChildDepthSame(depth) == depth

\* depth - 1, the depth passed to the recursive call
ChildDepth(depth) == depth - 1

\* the frame of minimax(g, depth, alpha, beta, isMaximizingPlayer) on entry
Activation(g, depth, alpha, beta, isMaximizingPlayer) ==
  [depth |-> depth, isMaximizingPlayer |-> isMaximizingPlayer,
   pc |-> "enter", ms |-> <<>>, i |-> 0,
   f |-> Frame(g, alpha, beta,
               IF isMaximizingPlayer THEN NegInf ELSE PosInf, 0, 1, 0, FALSE),
   entry |-> g, seen |-> <<>>]

\* the games the frame-by-frame search is run on
StepGames ==
  {MateInOneWhite, MateInOneBlack, BlackMated, BlackStalemated,
   BlockedPawns, RepeatedGame, ThriceRepeated}

InitStep ==
  /\ game \in StepGames
  /\ pre = game
  /\ op = "init"
  /\ args = NoArgs
  /\ result = NoResult
  /\ stack = <<>>
  /\ ui = InitialUI

\* the innermost frame
Top == stack[Len(stack)]

\* a caller's minimax(game, depth, -Infinity, Infinity, flag) is entered
StartMinimax ==
  /\ op = "init"
  /\ \E depth \in Depths : \E isMaximizingPlayer \in BOOLEAN :
       /\ stack' = <<Activation(game, depth, NegInf, PosInf,
                                isMaximizingPlayer)>>
       /\ args' = [depth |-> depth, alpha |-> NegInf, beta |-> PosInf,
                   isMaximizingPlayer |-> isMaximizingPlayer,
                   computerColor |-> "-"]
  /\ op' = "running"
  /\ pre' = game
  /\ UNCHANGED <<game, result, ui>>

\* the innermost frame returns r: to the caller, or to the frame that called
\* it, which runs the rest of its loop body (undo, compare, window, break
\* test) and is back at the head of its loop
Deliver(r) ==
  IF Len(stack) = 1
  THEN /\ stack' = <<>>
       /\ game' = r.game
       /\ op' = "minimax"
       /\ result' = Returned(r)
       /\ UNCHANGED <<pre, args, ui>>
  ELSE \E p \in {stack[Len(stack) - 1]} :
       \E f \in {IF p.isMaximizingPlayer THEN MaxUpdate(p.f, p.ms, p.i, r)
                 ELSE MinUpdate(p.f, p.ms, p.i, r)} :
          /\ game' = f.game
          /\ stack' = Append(SubSeq(stack, 1, Len(stack) - 2),
                             [p EXCEPT !.pc = "loop", !.f = f,
                                       !.i = p.i + 1,
                                       !.seen = Append(p.seen, r.score)])
          /\ UNCHANGED <<pre, op, args, result, ui>>

\* the base-case test and, past it, const moves = game.moves(...)
EnterWith(ms) ==
  IF Top.depth = 0 \/ isGameOver(game, ms)
  THEN \E r \in {[score |-> Evaluate(game, ms), move |-> Undefined,
                    game |-> game, nodes |-> 1, cuts |-> 0]} : Deliver(r)
  ELSE /\ stack' = [stack EXCEPT ![Len(stack)] =
                      [Top EXCEPT !.pc = "loop", !.ms = ms, !.i = 1]]
       /\ UNCHANGED <<game, pre, op, args, result, ui>>

Enter ==
  /\ op = "running"
  /\ Top.pc = "enter"
  /\ \E ms \in {moves(game)} : EnterWith(ms)

\* game.move(ms[i]) and the recursive call on the game object it left
Apply ==
  /\ op = "running"
  /\ Top.pc = "loop"
  /\ ~Top.f.done
  /\ Top.i <= Len(Top.ms)
  /\ \E child \in {move(game, Top.ms[Top.i])} :
       /\ game' = child
       /\ stack' = Append([stack EXCEPT ![Len(stack)] =
                             [Top EXCEPT !.pc = "called"]],
                          Activation(child, ChildDepth(Top.depth),
                                     Top.f.alpha, Top.f.beta,
                                     ~Top.isMaximizingPlayer))
  /\ UNCHANGED <<pre, op, args, result, ui>>

\* the loop is over, by exhaustion or by a break: return { score, move }
Leave ==
  /\ op = "running"
  /\ Top.pc = "loop"
  /\ Top.f.done \/ Top.i > Len(Top.ms)
  /\ \E r \in {Return(Top.entry, Top.ms, Top.f)} : Deliver(r)

NextStep == StartMinimax \/ Enter \/ Apply \/ Leave

SpecStep == InitStep /\ [][NextStep]_vars

\* a call that was entered keeps running: nothing in minimax waits
Run == Enter \/ Apply \/ Leave

SpecStepFair == InitStep /\ [][NextStep]_vars /\ WF_vars(Run)

\* game.move(ms[i]) throws: the oracle rejects the move.  minimax and
\* findBestMove have no try, catch or finally, so the exception leaves
\* every frame at once and reaches the caller
Throw ==
  /\ op = "running"
  /\ Top.pc = "loop"
  /\ ~Top.f.done
  /\ Top.i <= Len(Top.ms)
  /\ stack' = <<>>
  /\ op' = "failed"
  /\ UNCHANGED <<game, pre, args, result, ui>>

NextFail == StartMinimax \/ Enter \/ Apply \/ Leave \/ Throw

SpecFail == InitStep /\ [][NextFail]_vars

----------------------------------------------------------------------------
(* minimax called with a window of the caller's choosing: alpha and beta   *)
(* are parameters of the exported function, defaulted to -Infinity and     *)
(* Infinity                                                                *)

WindowBounds == {NegInf, -100, -50, -20, 0, 50, PosInf}

Windows == {w \in WindowBounds \X WindowBounds : w[1] < w[2]}

\* minimax(game, depth, alpha, beta, isMaximizingPlayer)
MinimaxWindowCall ==
  /\ op = "init"
  /\ \E depth \in Depths : \E isMaximizingPlayer \in BOOLEAN :
       \E w \in Windows :
         \E r \in {minimax(game, depth, w[1], w[2], isMaximizingPlayer)} :
           /\ game' = r.game
           /\ result' = Returned(r)
           /\ args' = [depth |-> depth, alpha |-> w[1], beta |-> w[2],
                       isMaximizingPlayer |-> isMaximizingPlayer,
                       computerColor |-> "-"]
  /\ pre' = game
  /\ op' = "minimaxWindow"
  /\ UNCHANGED <<stack, ui>>

SpecWindow == InitStep /\ [][MinimaxWindowCall]_vars

----------------------------------------------------------------------------
(* The ChessGame component.  game is its useState game object; ui holds    *)
(* the other useState values, computerTimeoutRef, the timers that are      *)
(* pending, each with the values its callback closed over, and whether a   *)
(* run of the effect is due.  A handler runs against the state of the last *)
(* render; the effect runs some time after the render that made it due.    *)
(* The exploration is bounded: moves are played only on boards of at most  *)
(* MaxPieces pieces and up to MaxMoves a game, searches run to at most     *)
(* MaxSearchDepth, at most MaxTimers timers are pending, and the user acts *)
(* (types, slides, drops, clicks) at most MaxInputs times.                 *)

MaxPieces == 6
MaxMoves == 2
MaxTimers == 2
MaxInputs == 3
MaxSearchDepth == 3

\* the positions whose FEN the user pastes into the text box
\* both kings are boxed in by blocked rook pawns: one legal move a side
\* (Kh1-g1, then Ka8-b8)
BoxedKings ==
  Position({<<7, 7, "k", "w">>, <<0, 0, "k", "b">>,
            <<6, 7, "p", "w">>, <<5, 7, "p", "b">>,
            <<2, 0, "p", "w">>, <<1, 0, "p", "b">>},
           "w", {}, NoSquare, 0)

\* the same with Black to move
BoxedKingsBlack ==
  Position({<<7, 7, "k", "w">>, <<0, 0, "k", "b">>,
            <<6, 7, "p", "w">>, <<5, 7, "p", "b">>,
            <<2, 0, "p", "w">>, <<1, 0, "p", "b">>},
           "b", {}, NoSquare, 0)

FenGames == {BoxedKings, BoxedKingsBlack, BlackMated}

CustomFens ==
  {EmptyFen, InvalidFen} \cup {[kind |-> "fen", fen |-> fen(g)] : g \in FenGames}

PieceCount(g) ==
  Cardinality({s \in Rows \X Cols : g.board[s[1]][s[2]] # NoPiece})

InitUI ==
  /\ game = StartPosition
  /\ pre = game
  /\ op = "init"
  /\ args = NoArgs
  /\ result = NoResult
  /\ stack = <<>>
  /\ ui = InitialUI

\* what the callbacks created in a render close over, g and u being the
\* game and the other state values of that render; epoch tells which
\* reset the render followed
Closure(g, u) ==
  [game |-> g, gameOver |-> u.gameOver, playerColor |-> u.playerColor,
   searchDepth |-> u.searchDepth, epoch |-> u.resets]

\* the id window.setTimeout hands out: one no pending timer has
FreshId(u) ==
  CHOOSE n \in 1..(Cardinality(u.timers) + 1) :
    /\ n \notin {t.id : t \in u.timers}
    /\ \A k \in 1..(n - 1) : k \in {t.id : t \in u.timers}

\* the state u1 that follows u0 with an effect run due if a dependency of
\* the effect changed: the game object (gameSet), playerColor,
\* computerThinking, or makeComputerMove through gameOver and searchDepth
Rendered(u0, u1, gameSet) ==
  [u1 EXCEPT !.effect =
     \/ u0.effect
     \/ gameSet
     \/ <<u1.playerColor, u1.computerThinking, u1.gameOver, u1.searchDepth>>
          # <<u0.playerColor, u0.computerThinking, u0.gameOver,
               u0.searchDepth>>]

\* makeComputerMove() of the render with closure c, called when the state
\* is u: setComputerThinking(true) and the timer put in computerTimeoutRef
makeComputerMove(c, u) ==
  IF c.gameOver # Null \/ turn(c.game) = c.playerColor THEN u
  ELSE [u EXCEPT !.computerThinking = TRUE,
                 !.computerTimeoutRef = FreshId(u),
                 !.timers = @ \cup {[id |-> FreshId(u), kind |-> "search",
                                     closure |-> c]}]

\* window.clearTimeout(computerTimeoutRef.current) and the ref set to null
Cleared(u) ==
  [u EXCEPT !.timers = {t \in @ : t.id # u.computerTimeoutRef},
            !.computerTimeoutRef = NoTimer]

\* makeMove(move) of a render whose game is g, called when the state is u:
\* the move is made on new Chess(game.fen()), promotion being the field
\* the caller put in the move object
makeMove(g, u, ms, m, promotion) ==
  [game |-> move(Chess(fen(g)), m),
   ui |-> [u EXCEPT !.moveHistory =
             Append(@, [from |-> m.from, to |-> m.to,
                        promotion |-> promotion,
                        san |-> San(Chess(fen(g)), ms, m)])],
   gameSet |-> TRUE]

\* the user acts once more
Input(u) == [u EXCEPT !.inputs = @ + 1]

\* setCustomFen from the text box or the clear button
SetCustomFen ==
  /\ ui.inputs < MaxInputs
  /\ \E f \in CustomFens \ {ui.customFen} :
       ui' = [Input(ui) EXCEPT !.customFen = f]
  /\ op' = "setCustomFen"
  /\ pre' = game
  /\ UNCHANGED <<game, args, result, stack>>

\* the depth slider
SetSearchDepth ==
  /\ ui.inputs < MaxInputs
  /\ \E d \in (1..MaxSearchDepth) \ {ui.searchDepth} :
       ui' = Rendered(ui, [Input(ui) EXCEPT !.searchDepth = d], FALSE)
  /\ op' = "setSearchDepth"
  /\ pre' = game
  /\ UNCHANGED <<game, args, result, stack>>

\* onDrop without the test of whose turn it is
DroppedAnyTurn(ms, from, to) ==
  \E legal \in {{i \in 1..Len(ms) : /\ ms[i].from = from
                                    /\ ms[i].to = to
                                    /\ ms[i].promotion \in {"-", "q"}}} :
    IF \/ to = NoSquare
       \/ ui.computerThinking
       \/ ui.gameOver # Null
       \/ legal = {}
    THEN /\ game' = game
         /\ ui' = Input(ui)
         /\ result' = [returned |-> FALSE, onBoard |-> to # NoSquare]
    ELSE \E r \in {makeMove(game, Input(ui), ms,
                            ms[CHOOSE i \in legal : TRUE], "q")} :
           /\ game' = r.game
           /\ ui' = Rendered(ui, r.ui, r.gameSet)
           /\ result' = [returned |-> TRUE, onBoard |-> TRUE]

\* onDrop({ sourceSquare, targetSquare }): a piece is dragged to a square
\* or off the board (NoSquare); result is what onDrop returned and whether
\* the target was a square
Dropped(ms, from, to) ==
  \E legal \in {{i \in 1..Len(ms) : /\ ms[i].from = from
                                    /\ ms[i].to = to
                                    /\ ms[i].promotion \in {"-", "q"}}} :
    IF \/ to = NoSquare
       \/ turn(game) # ui.playerColor
       \/ ui.computerThinking
       \/ ui.gameOver # Null
       \/ legal = {}
    THEN /\ game' = game
         /\ ui' = Input(ui)
         /\ result' = [returned |-> FALSE, onBoard |-> to # NoSquare]
    ELSE \E r \in {makeMove(game, Input(ui), ms,
                            ms[CHOOSE i \in legal : TRUE], "q")} :
           /\ game' = r.game
           /\ ui' = Rendered(ui, r.ui, r.gameSet)
           /\ result' = [returned |-> TRUE, onBoard |-> TRUE]

\* the user drags a piece from a square of the set squares to another of
\* them, back to its square or off the board
Drops(squares) ==
  \E ms \in {moves(game)} :
    \E from \in {s \in squares : game.board[s[1]][s[2]] # NoPiece} :
       \E to \in ({ms[i].to : i \in 1..Len(ms)} \cap squares)
                   \cup {from, NoSquare} :
          Dropped(ms, from, to)

OnDrop ==
  /\ ui.inputs < MaxInputs
  /\ PieceCount(game) <= MaxPieces
  /\ Len(ui.moveHistory) < MaxMoves
  /\ Drops(Rows \X Cols)
  /\ op' = "onDrop"
  /\ pre' = game
  /\ UNCHANGED <<args, stack>>

\* resetGame() of the render with game g and state u, playerColor being
\* what the button set before it called resetGame
Reset(g, u, playerColor, newGame) ==
  \E u1 \in {[Cleared(u) EXCEPT
                !.playerColor = playerColor,
                !.computerThinking = FALSE,
                !.fenError = IF u.customFen.kind = "fen" THEN Null
                             ELSE IF u.customFen.kind = "invalid"
                             THEN "Invalid FEN string. Please check your input."
                             ELSE @,
                !.initialFen = IF u.customFen.kind = "fen" THEN u.customFen.fen
                               ELSE IF u.customFen.kind = "empty"
                               THEN fen(newGame)
                               ELSE @,
                !.moveHistory = <<>>,
                !.gameOver = Null,
                !.started = fen(newGame),
                !.resets = @ + 1]} :
    /\ Cardinality(u1.timers) < MaxTimers \/ turn(newGame) = u.playerColor
    /\ game' = newGame
    /\ ui' = Rendered(u,
               IF turn(newGame) # u.playerColor
               THEN [u1 EXCEPT !.timers =
                       @ \cup {[id |-> FreshId(u1), kind |-> "makeComputerMove",
                                closure |-> Closure(g, u)]}]
               ELSE u1,
               TRUE)

\* the reset button, or a color button that is not the current color
ResetGame ==
  /\ ui.inputs < MaxInputs
  /\ \E playerColor \in Colors :
       Reset(game, Input(ui), playerColor,
             IF ui.customFen.kind = "fen" THEN Chess(ui.customFen.fen)
             ELSE StartPosition)
  /\ op' = "resetGame"
  /\ pre' = game
  /\ UNCHANGED <<args, result, stack>>

\* the timer resetGame set fires: makeComputerMove() of the render in
\* which resetGame was called
DeferredMakeComputerMove ==
  /\ \E t \in ui.timers :
       /\ t.kind = "makeComputerMove"
       /\ ui' = Rendered(ui,
                  makeComputerMove(t.closure,
                                   [ui EXCEPT !.timers = @ \ {t}]),
                  FALSE)
  /\ op' = "makeComputerMove"
  /\ pre' = game
  /\ UNCHANGED <<game, args, result, stack>>

\* the try block of the callback with bestMoveSan null: nothing is applied,
\* but the missing move is entered in the move history
PlayedRecordingNull(c, g, u, bestMoveSan, ms) ==
  IF bestMoveSan = Null
  THEN [game |-> g,
        ui |-> [u EXCEPT !.moveHistory =
                  Append(@, [from |-> NoSquare, to |-> NoSquare,
                             promotion |-> "-", san |-> Null])],
        gameSet |-> FALSE]
  ELSE makeMove(c.game, u, ms,
                ms[CHOOSE i \in 1..Len(ms) :
                     San(Chess(fen(c.game)), ms, ms[i]) = bestMoveSan],
                ms[CHOOSE i \in 1..Len(ms) :
                     San(Chess(fen(c.game)), ms, ms[i]) = bestMoveSan]
                  .promotion)

\* the try block of the callback: if (bestMoveSan), the move is read on
\* gameCopy = new Chess(game.fen()), whose legal moves are ms, and handed
\* to makeMove; g and u are the game and the state when the callback runs
Played(c, g, u, bestMoveSan, ms) ==
  IF bestMoveSan = Null THEN [game |-> g, ui |-> u, gameSet |-> FALSE]
  ELSE makeMove(c.game, u, ms,
                ms[CHOOSE i \in 1..Len(ms) :
                     San(Chess(fen(c.game)), ms, ms[i]) = bestMoveSan],
                ms[CHOOSE i \in 1..Len(ms) :
                     San(Chess(fen(c.game)), ms, ms[i]) = bestMoveSan]
                  .promotion)

\* the callback makeComputerMove handed to window.setTimeout, c being what
\* it closed over and r what findBestMove returned
Thought(t, r) ==
  \E p \in {Played(t.closure, game, ui, r.move,
                   moves(Chess(fen(t.closure.game))))} :
    /\ game' = p.game
    /\ ui' = Rendered(ui,
               [p.ui EXCEPT !.computerThinking = FALSE,
                            !.computerTimeoutRef = NoTimer,
                            !.timers = @ \ {t}],
               p.gameSet)
    /\ result' = Returned(r)
    /\ args' = [depth |-> t.closure.searchDepth, alpha |-> NegInf,
                beta |-> PosInf,
                isMaximizingPlayer |-> r.isMaximizingPlayer,
                computerColor |-> swapColor(t.closure.playerColor),
                epoch |-> t.closure.epoch]

\* the timer of a deferred search fires
Fired ==
  \E t \in ui.timers :
    /\ t.kind = "search"
    /\ PieceCount(t.closure.game) <= MaxPieces
    /\ t.closure.searchDepth <= MaxSearchDepth
    /\ \E r \in {findBestMove(t.closure.game, t.closure.searchDepth,
                              swapColor(t.closure.playerColor))} :
         Thought(t, r)

ComputerMoveCallback ==
  /\ Len(ui.moveHistory) < MaxMoves
  /\ Fired
  /\ op' = "computerMove"
  /\ pre' = game
  /\ UNCHANGED stack

\* setGameOver(...) in the effect's game-over branch
GameOverMessage(g, ms) ==
  IF isCheckmate(g, ms)
  THEN (IF turn(g) = "w" THEN "Checkmate! Black wins!"
        ELSE "Checkmate! White wins!")
  ELSE IF isDraw(g, ms) THEN "Draw!"
  ELSE IF isStalemate(g, ms) THEN "Stalemate!"
  ELSE IF isThreefoldRepetition(g) THEN "Draw by threefold repetition!"
  ELSE "Draw by insufficient material!"

\* the effect without its call of makeComputerMove
EffectedGameOverOnly(ms) ==
  IF isGameOver(game, ms)
  THEN [Cleared(ui) EXCEPT !.gameOver = GameOverMessage(game, ms),
                           !.computerThinking = FALSE]
  ELSE [ui EXCEPT !.gameOver = Null]

\* the body of the effect, run against the last render
Effected(ms) ==
  IF isGameOver(game, ms)
  THEN [Cleared(ui) EXCEPT !.gameOver = GameOverMessage(game, ms),
                           !.computerThinking = FALSE]
  ELSE IF turn(game) # ui.playerColor /\ ~ui.computerThinking
  THEN makeComputerMove(Closure(game, ui), [ui EXCEPT !.gameOver = Null])
  ELSE [ui EXCEPT !.gameOver = Null]

\* useEffect(..., [game, playerColor, computerThinking, makeComputerMove])
Effect ==
  /\ ui.effect
  /\ \E ms \in {moves(game)} : \E u \in {Effected(ms)} :
       /\ Cardinality(u.timers) <= MaxTimers
       /\ ui' = Rendered([ui EXCEPT !.effect = FALSE], u, FALSE)
  /\ op' = "effect"
  /\ pre' = game
  /\ UNCHANGED <<game, args, result, stack>>

NextUI ==
  \/ SetCustomFen \/ SetSearchDepth \/ OnDrop \/ ResetGame
  \/ DeferredMakeComputerMove \/ ComputerMoveCallback \/ Effect

SpecUI == InitUI /\ [][NextUI]_vars

\* the component after the user pasted the FEN of a position into the text
\* box and clicked the reset button, counting that click as the user's
\* first act:
\* resetGame of the first render set the game, initialFen and, for a
\* position with Black to move, the timer that calls makeComputerMove
LoadedUI(f) ==
  [InitialUI EXCEPT
     !.customFen = f,
     !.initialFen = f.fen,
     !.started = f.fen,
     !.resets = 1,
     !.inputs = 1,
     !.timers = IF turn(Chess(f.fen)) # InitialUI.playerColor
                THEN {[id |-> 1, kind |-> "makeComputerMove",
                       closure |-> Closure(StartPosition, InitialUI)]}
                ELSE {}]

InitLoaded ==
  /\ \E f \in {c \in CustomFens : c.kind = "fen"} :
       /\ game = Chess(f.fen)
       /\ ui = LoadedUI(f)
  /\ pre = StartPosition
  /\ op = "resetGame"
  /\ args = NoArgs
  /\ result = NoResult
  /\ stack = <<>>

SpecLoaded == InitLoaded /\ [][NextUI]_vars

\* The component in a long game: the game starts from a custom position in
\* which the kings can only shuffle, the user only drops pieces, acting at
\* most RepeatInputs times with the reset that started the game, and the
\* game has at most RepeatMoves moves.
RepeatMoves == 8
RepeatInputs == 5

\* k7/p2K4/P7/8/8/8/8/8 w - - 0 1: while the white king stays on d7 or
\* d8 the black king has one legal move, between a8 and b8
Shuffle ==
  Position({<<1, 3, "k", "w">>, <<0, 0, "k", "b">>,
            <<2, 0, "p", "w">>, <<1, 0, "p", "b">>},
           "w", {}, NoSquare, 0)

InitRepeat ==
  /\ game = Shuffle
  /\ ui = LoadedUI([kind |-> "fen", fen |-> fen(Shuffle)])
  /\ pre = StartPosition
  /\ op = "resetGame"
  /\ args = NoArgs
  /\ result = NoResult
  /\ stack = <<>>

\* d7, d8 and e8
RepeatSquares == {<<1, 3>>, <<0, 3>>, <<0, 4>>}

\* the user drags the king
OnDropRepeat ==
  /\ ui.inputs < RepeatInputs
  /\ Len(ui.moveHistory) < RepeatMoves
  /\ Drops(RepeatSquares)
  /\ op' = "onDrop"
  /\ pre' = game
  /\ UNCHANGED <<args, stack>>

ComputerMoveCallbackRepeat ==
  /\ Len(ui.moveHistory) < RepeatMoves
  /\ Fired
  /\ op' = "computerMove"
  /\ pre' = game
  /\ UNCHANGED stack

NextRepeat == OnDropRepeat \/ ComputerMoveCallbackRepeat \/ Effect

SpecRepeat == InitRepeat /\ [][NextRepeat]_vars

\* the effect is pending and the timer it may set is within MaxTimers
EffectDue ==
  /\ ui.effect
  /\ Cardinality(ui.timers) < MaxTimers

\* whether ComputerMoveCallback can take a step, which always takes a
\* timer away: a search timer is pending whose callback is within the
\* bounds
CallbackDue ==
  /\ Len(ui.moveHistory) < MaxMoves
  /\ \E t \in ui.timers :
       /\ t.kind = "search"
       /\ PieceCount(t.closure.game) <= MaxPieces
       /\ t.closure.searchDepth <= MaxSearchDepth

\* timers that are due fire and an effect that is due runs; the user may
\* or may not act
\* the last conjunct is weak fairness of ComputerMoveCallback with its
\* enabling condition written out, like the conjunct before it for Effect;
\* a step of the component that sets op to "computerMove" is a step of
\* ComputerMoveCallback, one that sets it to "effect" a step of Effect
SpecUIFair ==
  /\ InitUI
  /\ [][NextUI]_vars
  /\ WF_vars(DeferredMakeComputerMove)
  /\ ([]<>(~EffectDue) \/ []<><<op' = "effect">>_vars)
  /\ ([]<>(~CallbackDue) \/ []<><<op' = "computerMove">>_vars)

----------------------------------------------------------------------------
(* Properties of the searcher                                              *)

RECURSIVE Exhaustive(_, _, _)

\* the earliest move with the best score, scores[i] being the value of ms[i]
ExhaustivePick(g, ms, scores, best) ==
  [score |-> best,
   move |-> San(g, ms, ms[CHOOSE i \in 1..Len(ms) :
                            /\ scores[i] = best
                            /\ \A j \in 1..(i - 1) : scores[j] # best])]

ExhaustiveBest(g, ms, isMaximizingPlayer, scores) ==
  ExhaustivePick(g, ms, scores,
                 CHOOSE v \in {scores[i] : i \in 1..Len(ms)} :
                   \A i \in 1..Len(ms) :
                     IF isMaximizingPlayer THEN v >= scores[i]
                     ELSE v <= scores[i])

ExhaustiveNode(g, ms, depth, isMaximizingPlayer) ==
  IF depth = 0 \/ isGameOver(g, ms)
  THEN [score |-> Evaluate(g, ms), move |-> Undefined]
  ELSE ExhaustiveBest(g, ms, isMaximizingPlayer,
         [i \in 1..Len(ms) |->
            Exhaustive(move(g, ms[i]), depth - 1,
                       ~isMaximizingPlayer).score] \o <<>>)

\* minimax without pruning: every move of every node is searched, in the
\* oracle's order, and the earliest best move is kept
Exhaustive(g, depth, isMaximizingPlayer) ==
  ExhaustiveNode(g, moves(g), depth, isMaximizingPlayer)

\* C1: a minimax call with the full window returns the score and the move of
\* the exhaustive minimax of the same position, depth and flag
C1_PruningEquivalence ==
  op = "minimax" =>
    [score |-> result.score, move |-> result.move]
      = Exhaustive(pre, args.depth, args.isMaximizingPlayer)

\* a search two plies deep that left a loop early and returned a move
C1_Witness ==
  /\ op = "minimax"
  /\ args.depth >= 2
  /\ result.cuts > 0
  /\ result.move # Undefined
  /\ result.score
       = Exhaustive(pre, args.depth, args.isMaximizingPlayer).score

\* C2: after a minimax call returned, the game object is what it was before
\* the call: board, side to move, rights, counters and move history
C2_PushPopIntegrity == op = "minimax" => game = pre

\* a search with pruning breaks on a game that has a move history
C2_Witness ==
  /\ op = "minimax"
  /\ args.depth >= 2
  /\ result.cuts > 0
  /\ Len(pre.history) > 0
  /\ game = pre

\* C3: when findBestMove is called with the computer's color to move, the
\* root is a maximizing node for White and a minimizing node for Black
C3_TopLevelPerspective ==
  (op = "findBestMove" /\ turn(pre) = args.computerColor) =>
    (args.isMaximizingPlayer <=> args.computerColor = "w")

\* the moves of g that deliver checkmate, as the oracle writes them
MatingMoves(g, ms) ==
  {San(g, ms, ms[i]) : i \in {j \in 1..Len(ms) :
     isCheckmate(move(g, ms[j]), moves(move(g, ms[j])))}}

\* C4: when the side to move can mate in one, findBestMove at depth 1 for
\* that side returns a mating move, scored +100000 for White and -100000
\* for Black
C4_MateInOne ==
  (/\ op = "findBestMove"
   /\ args.depth = 1
   /\ turn(pre) = args.computerColor
   /\ MatingMoves(pre, moves(pre)) # {}) =>
    /\ result.move \in MatingMoves(pre, moves(pre))
    /\ result.score = IF turn(pre) = "w" THEN MateScore ELSE -MateScore

\* White mates in one and the search finds the mate
C4_WitnessWhite ==
  /\ op = "findBestMove"
  /\ args.depth = 1
  /\ args.computerColor = "w"
  /\ turn(pre) = "w"
  /\ result.move \in MatingMoves(pre, moves(pre))
  /\ result.score = MateScore

\* the move strings the oracle accepts in g, ms being its legal moves
LegalSans(g, ms) == {San(g, ms, ms[i]) : i \in 1..Len(ms)}

\* C11: on a position that is not game-over and with depth >= 1, minimax
\* returns a move and findBestMove returns a move string, not null, that is
\* one of the legal moves of the caller's position; no returned score is
\* +Infinity or -Infinity
C11_NonNullLegalMove ==
  op # "init" =>
    /\ result.score \notin {NegInf, PosInf}
    /\ (args.depth >= 1 /\ ~isGameOver(pre, moves(pre))) =>
         /\ result.move \notin {Undefined, Null}
         /\ result.move \in LegalSans(pre, moves(pre))

\* findBestMove has searched two plies below a position with several legal
\* moves and returned one of them
C11_Witness ==
  /\ op = "findBestMove" /\ args.depth = 2
  /\ ~isGameOver(pre, moves(pre))
  /\ Len(moves(pre)) > 1
  /\ result.move \in LegalSans(pre, moves(pre))

\* C12: with depth 0 minimax returns evaluateBoard of the position and no
\* move, and applies no move; findBestMove with depth 0 returns null
C12_DepthZero ==
  (op # "init" /\ args.depth = 0) =>
    /\ result.nodes = 1
    /\ game = pre
    /\ op = "minimax" =>
         result.score = evaluateBoard(pre) /\ result.move = Undefined
    /\ op = "findBestMove" => result.move = Null

\* findBestMove was called with depth 0 on a position that has legal moves
C12_Witness ==
  /\ op = "findBestMove" /\ args.depth = 0
  /\ ~isGameOver(pre, moves(pre))
  /\ result.move = Null

\* C13: on a game-over position and with depth >= 1, minimax returns the
\* static evaluation, which is -100000, 0 or 100000, and no move, visiting
\* the root only; findBestMove returns null
C13_AlreadyTerminal ==
  (op # "init" /\ args.depth >= 1 /\ isGameOver(pre, moves(pre))) =>
    /\ op = "minimax" =>
         /\ result.score = evaluateBoard(pre)
         /\ result.score \in {-MateScore, 0, MateScore}
         /\ result.move = Undefined
         /\ result.nodes = 1
         /\ game = pre
    /\ op = "findBestMove" => result.move = Null

\* findBestMove was given a game that is over by threefold repetition and
\* returned a move
C13_Witness ==
  /\ op = "findBestMove" /\ args.depth >= 1
  /\ isThreefoldRepetition(pre)
  /\ result.move # Null

C14_RestoreOnFailure == op = "failed" => game = pre

\* a game.move below the root has thrown and the caller's game object
\* still carries the moves the frames above had applied
C14_Witness ==
  /\ op = "failed"
  /\ Len(game.history) > Len(pre.history)

\* the best of the scores frame a has seen: the greatest when maximizing,
\* the least when minimizing
BestSeen(a) ==
  IF a.isMaximizingPlayer
  THEN CHOOSE x \in {a.seen[k] : k \in 1..Len(a.seen)} :
         \A k \in 1..Len(a.seen) : a.seen[k] <= x
  ELSE CHOOSE x \in {a.seen[k] : k \in 1..Len(a.seen)} :
         \A k \in 1..Len(a.seen) : a.seen[k] >= x

\* the first move of frame a whose score is the best seen
FirstBest(a) ==
  CHOOSE k \in 1..Len(a.seen) :
    /\ a.seen[k] = BestSeen(a)
    /\ \A j \in 1..(k - 1) : a.seen[j] # BestSeen(a)

\* frame a has examined the first moves of the oracle's list, in its order,
\* and holds the earliest of those with the best score
EarliestBestHeld(a) ==
  /\ a.ms = moves(a.entry)
  /\ Len(a.seen) = a.i - 1
  /\ IF a.seen = <<>>
     THEN /\ a.f.bestMove = 0
          /\ a.f.score = IF a.isMaximizingPlayer THEN NegInf ELSE PosInf
     ELSE a.f.score = BestSeen(a) /\ a.f.bestMove = FirstBest(a)

\* C15: at every node the moves are examined in the oracle's order and the
\* running best is replaced only by a strictly better score, so the move
\* held, and returned, is the earliest examined one with the best score
C15_TieBreak ==
  op = "running" =>
    \A k \in 1..Len(stack) :
       stack[k].pc # "enter" => EarliestBestHeld(stack[k])

\* a frame is about to return after it saw its best score twice, and it
\* holds the earlier of the two moves
C15_Witness ==
  /\ op = "running"
  /\ Top.pc = "loop"
  /\ Top.f.done \/ Top.i > Len(Top.ms)
  /\ \E j, k \in 1..Len(Top.seen) :
        /\ j < k
        /\ Top.seen[j] = Top.f.score
        /\ Top.seen[k] = Top.f.score
        /\ Top.f.bestMove = j

\* C17: minimax terminates, and no node deeper than depth plies below the
\* root is visited
C17_Termination ==
  /\ [](op = "running" => Len(stack) - 1 <= args.depth)
  /\ (op = "running") ~> (op = "minimax")

\* a search of the greatest depth has returned after visiting nodes at
\* that depth
C17_Witness ==
  /\ op = "minimax"
  /\ args.depth = MaxDepth
  /\ result.nodes > MaxDepth + 1

\* C20: during a search every applied move is reverted once before the
\* frame applies the next sibling's move, breaks or returns, so the moves
\* applied and not reverted are as many as the recursion is deep and never
\* more than the requested depth
C20_NestedDiscipline ==
  op = "running" =>
    /\ Len(game.history) - Len(pre.history) = Len(stack) - 1
    /\ Len(stack) - 1 <= args.depth
    /\ \A k \in 1..(Len(stack) - 1) : stack[k].pc = "called"
    /\ Top.pc = "loop" => game = Top.entry

\* a frame one ply below the root has broken out of its loop with moves
\* left, and the game object is as the frame found it
C20_Witness ==
  /\ op = "running"
  /\ Len(stack) = 2
  /\ Top.pc = "loop"
  /\ Top.f.done
  /\ Top.i <= Len(Top.ms)
  /\ game = Top.entry
  /\ Len(game.history) = Len(pre.history) + 1

----------------------------------------------------------------------------
(* Properties of the evaluator                                             *)

\* the position is one of those evaluateBoard scores without looking at
\* the pieces
Terminal(g, ms) ==
  \/ isCheckmate(g, ms) \/ isDraw(g, ms) \/ isStalemate(g, ms)
  \/ isThreefoldRepetition(g) \/ isInsufficientMaterial(g)

StatedValue ==
  [p |-> 100, n |-> 320, b |-> 330, r |-> 500, q |-> 900, k |-> 20000]

StatedMaterial(square) ==
  IF square.color = "w" THEN StatedValue[square.type]
  ELSE -StatedValue[square.type]

\* the sum of StatedMaterial over the occupied squares
StatedMaterialScore(g) ==
  SumSeq([i \in 1..64 |->
    IF g.board[(i - 1) \div 8][(i - 1) % 8] = NoPiece THEN 0
    ELSE StatedMaterial(g.board[(i - 1) \div 8][(i - 1) % 8])])

\* C5: on a non-terminal position the material part of evaluateBoard's
\* result is the sum of the piece values, positive for White's pieces and
\* negative for Black's
C5_Material ==
  (op = "evaluateBoard" /\ ~Terminal(pre, moves(pre))) =>
    result.score - PositionScore(pre) - MobilityScore(pre, moves(pre))
      = StatedMaterialScore(pre)

StatedBonus(square, row, col) ==
  IF square.color = "w"
  THEN POSITION_BONUSES[toUpperCase[square.type]][(7 - row) + 1][col + 1]
  ELSE -POSITION_BONUSES[toUpperCase[square.type]][row + 1][col + 1]

\* the sum of StatedBonus over the occupied squares
StatedBonusScore(g) ==
  SumSeq([i \in 1..64 |->
    IF g.board[(i - 1) \div 8][(i - 1) % 8] = NoPiece THEN 0
    ELSE StatedBonus(g.board[(i - 1) \div 8][(i - 1) % 8],
                     (i - 1) \div 8, (i - 1) % 8)])

\* C6: on a non-terminal position the positional part of evaluateBoard's
\* result is the sum of +TABLE[type][7 - r][c] over White's pieces and of
\* -TABLE[type][r][c] over Black's
C6_Positional ==
  (op = "evaluateBoard" /\ ~Terminal(pre, moves(pre))) =>
    result.score - MaterialScore(pre) - MobilityScore(pre, moves(pre))
      = StatedBonusScore(pre)

\* C7: on a non-terminal position the mobility part of evaluateBoard's
\* result is 5 times the number of legal moves of the side to move, added
\* for White to move and subtracted for Black to move
C7_Mobility ==
  (op = "evaluateBoard" /\ ~Terminal(pre, moves(pre))) =>
    result.score - MaterialScore(pre) - PositionScore(pre)
      = IF turn(pre) = "w" THEN 5 * Len(moves(pre))
        ELSE -(5 * Len(moves(pre)))

\* Black to move in a non-terminal position where the other side would
\* have a different number of moves
C7_Witness ==
  /\ op = "evaluateBoard"
  /\ ~Terminal(pre, moves(pre))
  /\ turn(pre) = "b"
  /\ Len(moves(pre)) > 0
  /\ Len(moves([pre EXCEPT !.turn = "w", !.ep = NoSquare])) # Len(moves(pre))
  /\ result.score - MaterialScore(pre) - PositionScore(pre)
       = -(5 * Len(moves(pre)))

\* C8 as stated: -100000 for a checkmate with White to move, +100000 for
\* one with Black to move, and 0 for every stalemate, threefold
\* repetition, draw or insufficient-material position
C8_TerminalScores_Original ==
  op = "evaluateBoard" =>
    /\ isCheckmate(pre, moves(pre)) =>
         result.score = IF turn(pre) = "w" THEN -MateScore ELSE MateScore
    /\ (\/ isStalemate(pre, moves(pre)) \/ isThreefoldRepetition(pre)
        \/ isDraw(pre, moves(pre)) \/ isInsufficientMaterial(pre)) =>
         result.score = 0

\* C8: -100000 for a checkmate with White to move, +100000 for one with
\* Black to move, and 0 for every stalemate, threefold repetition, draw or
\* insufficient-material position that is not a checkmate
C8_TerminalScores ==
  op = "evaluateBoard" =>
    /\ isCheckmate(pre, moves(pre)) =>
         result.score = IF turn(pre) = "w" THEN -MateScore ELSE MateScore
    /\ (/\ ~isCheckmate(pre, moves(pre))
        /\ (\/ isStalemate(pre, moves(pre)) \/ isThreefoldRepetition(pre)
            \/ isDraw(pre, moves(pre)) \/ isInsufficientMaterial(pre))) =>
         result.score = 0

\* White is mated by the move that completes the fifty-move count: the
\* oracle reports a checkmate and a draw
C8_Witness ==
  /\ op = "evaluateBoard"
  /\ turn(pre) = "w"
  /\ isCheckmate(pre, moves(pre))
  /\ isDraw(pre, moves(pre))
  /\ result.score = -MateScore

MirrorRight == [K |-> "k", Q |-> "q", k |-> "K", q |-> "Q"]

\* a position with the ranks mirrored, the colors of the pieces swapped
\* and the side to move flipped
MirrorPosition(s) ==
  [board |-> [r \in Rows |-> [c \in Cols |->
                IF s.board[7 - r][c] = NoPiece THEN NoPiece
                ELSE Pc(s.board[7 - r][c].type,
                        swapColor(s.board[7 - r][c].color))]],
   turn |-> swapColor(s.turn),
   castling |-> {MirrorRight[x] : x \in s.castling},
   ep |-> IF s.ep = NoSquare THEN NoSquare ELSE <<7 - s.ep[1], s.ep[2]>>,
   halfMoves |-> s.halfMoves, moveNumber |-> s.moveNumber]

\* the mirrored game: its position and the positions of its history
Mirror(g) ==
  [Chess(MirrorPosition(fen(g))) EXCEPT
     !.history = [i \in 1..Len(g.history) |-> MirrorPosition(g.history[i])]]

\* C10: evaluateBoard of the mirrored position is the negation of
\* evaluateBoard of the position
C10_MirrorInvariance ==
  op = "evaluateBoard" => evaluateBoard(Mirror(pre)) = -result.score

C21_WindowSoundness ==
  op = "minimaxWindow" =>
    \A m \in {Exhaustive(pre, args.depth, args.isMaximizingPlayer).score} :
      /\ (args.alpha < m /\ m < args.beta) => result.score = m
      /\ m <= args.alpha => result.score <= args.alpha
      /\ m >= args.beta => result.score >= args.beta

\* a search two plies deep under a narrowed window whose exhaustive value
\* lies at or above beta, and that left a loop early
C21_Witness ==
  /\ op = "minimaxWindow"
  /\ args.depth >= 2
  /\ args.alpha > NegInf
  /\ args.beta < PosInf
  /\ result.cuts > 0
  /\ Exhaustive(pre, args.depth, args.isMaximizingPlayer).score >= args.beta
  /\ result.score >= args.beta

----------------------------------------------------------------------------
(* Properties of the component                                             *)

\* C18: when findBestMove returns null, the deferred computer-move callback
\* applies no move: it leaves the game position and the move history as
\* they were
C18_NullMoveNoOp ==
  [][(op' = "computerMove" /\ result'.move = Null) =>
       (game' = game /\ ui'.moveHistory = ui.moveHistory)]_vars

\* the callback has run on a game that was over when its render closed
\* over it, findBestMove returned null, and the game shown is untouched
C18_Witness ==
  /\ op = "computerMove"
  /\ result.move = Null
  /\ args.depth >= 1
  /\ game = pre
  /\ ~ui.computerThinking

\* C22: a computer-move callback that applies a move closed over a game
\* of after the last reset: once resetGame has run, no callback of a
\* render before it applies a move
C22_ResetCancels ==
  [][(op' = "computerMove" /\ result'.move # Null) =>
       args'.epoch = ui.resets]_vars

\* a callback applied a move to the game of a render that preceded the
\* last reset
C22_Witness ==
  /\ op = "computerMove"
  /\ result.move # Null
  /\ args.epoch < ui.resets
  /\ Len(ui.moveHistory) > 0

\* C23: every move the computer-move callback applies is a move of the
\* color opposite to playerColor as it is when the callback runs
C23_OwnColor ==
  [][(op' = "computerMove" /\ game' # game) =>
       turn(undo(game')) = swapColor(ui.playerColor)]_vars

\* the callback moved a piece of the color the player holds
C23_Witness ==
  /\ op = "computerMove"
  /\ game # pre
  /\ turn(undo(game)) = ui.playerColor

RECURSIVE HistoryLeadsTo(_, _, _)

\* whether the entries of h, played in order from g, each the legal move
\* with the entry's squares and SAN, end in the position with FEN target
HistoryLeadsTo(g, h, target) ==
  IF h = <<>> THEN fen(g) = target
  ELSE \E ms \in {moves(g)} : \E i \in 1..Len(ms) :
         /\ ms[i].from = Head(h).from
         /\ ms[i].to = Head(h).to
         /\ San(g, ms, ms[i]) = Head(h).san
         /\ HistoryLeadsTo(move(g, ms[i]), Tail(h), target)

\* C24: moveHistory is the sequence of moves that leads from the position
\* the last reset set to the position of the game
C24_HistoryMatches ==
  HistoryLeadsTo(Chess(ui.started), ui.moveHistory, fen(game))

\* after a reset the history holds moves that do not lead to the game
C24_Witness ==
  /\ op = "computerMove"
  /\ ui.moveHistory # <<>>
  /\ ~HistoryLeadsTo(Chess(ui.started), ui.moveHistory, fen(game))

RECURSIVE Occurrences(_, _, _)

\* the move of ms with the squares and the SAN of the history entry e
Entered(g, ms, e) ==
  ms[CHOOSE i \in 1..Len(ms) : /\ ms[i].from = e.from
                               /\ ms[i].to = e.to
                               /\ San(g, ms, ms[i]) = e.san]

\* how many of the positions of the game played from g by the entries of h
\* are the position key, g included
Occurrences(g, h, key) ==
  (IF PositionKey(g) = key THEN 1 ELSE 0)
  + (IF h = <<>> THEN 0
     ELSE Occurrences(move(g, Entered(g, moves(g), Head(h))), Tail(h), key))

\* the position on the board has occurred three times in the game that
\* moveHistory records
ThirdOccurrence ==
  /\ HistoryLeadsTo(Chess(ui.started), ui.moveHistory, fen(game))
  /\ Occurrences(Chess(ui.started), ui.moveHistory, PositionKey(game)) >= 3

\* C28: once the position on the board has occurred three times in the
\* game and the effect has run, the game is reported as over
C28_ThreefoldDetected ==
  (~ui.effect /\ ThirdOccurrence) => ui.gameOver # Null

\* the position has occurred three times, the effect has run and the game
\* goes on
C28_Witness ==
  /\ ~ui.effect
  /\ ThirdOccurrence
  /\ ui.gameOver = Null
  /\ ~isGameOver(game, moves(game))

\* the deferred searches that are pending
Searches(u) == {t \in u.timers : t.kind = "search"}

\* C26: at most one deferred search is pending, and while one is pending
\* computerThinking is true and computerTimeoutRef holds its timer
C26_SingleSearch ==
  /\ Cardinality(Searches(ui)) <= 1
  /\ \A t \in Searches(ui) :
       ui.computerThinking /\ ui.computerTimeoutRef = t.id

\* two deferred searches are pending at once
C26_Witness == Cardinality(Searches(ui)) = 2

\* C27: onDrop applies no move and returns false when it is not the
\* player's turn, the computer is thinking, the game is over or the piece
\* is dropped off the board: the game and moveHistory stay as they are
C27_DropGating ==
  [][(/\ op' = "onDrop"
      /\ \/ turn(game) # ui.playerColor
         \/ ui.computerThinking
         \/ ui.gameOver # Null
         \/ isGameOver(game, moves(game))
         \/ ~result'.onBoard) =>
       (/\ ~result'.returned
        /\ game' = game
        /\ ui'.moveHistory = ui.moveHistory)]_vars

\* a drop was refused while the computer was thinking
C27_Witness ==
  /\ op = "onDrop"
  /\ ~result.returned
  /\ result.onBoard
  /\ ui.computerThinking
  /\ game = pre

\* C29: initialFen is the FEN of the position the game started from
C29_InitialFen == ui.initialFen = ui.started

\* a reset with an invalid custom FEN started the game from the default
\* position while initialFen shows another
C29_Witness ==
  /\ op = "resetGame"
  /\ ui.customFen = InvalidFen
  /\ ui.started = fen(StartPosition)
  /\ ui.initialFen # fen(StartPosition)

\* it is the computer's turn in a game that is not over, and the searches
\* that are or will be pending are within the bounds of the exploration
ComputerToMove ==
  /\ turn(game) # ui.playerColor
  /\ PieceCount(game) <= MaxPieces
  /\ Len(ui.moveHistory) < MaxMoves
  /\ \A t \in ui.timers : PieceCount(t.closure.game) <= MaxPieces
  /\ ~isGameOver(game, moves(game))

\* the computer is not thinking and it is the player's turn or the game
\* is over
Replied ==
  /\ ~ui.computerThinking
  /\ \/ turn(game) = ui.playerColor
     \/ isGameOver(game, moves(game))

\* C25: when it is the computer's turn in a game that is not over and the
\* user does not act again, then, timers firing, the computer is
\* eventually not thinking with the player to move or the game over (or
\* the game has reached MaxMoves moves)
C25_ComputerReplies ==
  \A n \in 0..MaxInputs :
    (ui.inputs = n /\ ComputerToMove)
      ~> (ui.inputs # n \/ Len(ui.moveHistory) >= MaxMoves \/ Replied)

\* the callback applied the computer's reply: the player is to move and
\* the computer no longer thinks
C25_Witness ==
  /\ op = "computerMove"
  /\ result.move # Null
  /\ turn(pre) # ui.playerColor
  /\ turn(game) = ui.playerColor
  /\ ~ui.computerThinking
  /\ ui.timers = {}

====
